---- MODULE Spec2Model ----
(***************************************************************************)
(* The /api/compress handler of cleansong-proxy as a state machine.        *)
(*                                                                         *)
(* Two variants of the handler are in the repository: src/api/compress.js  *)
(* ("basic") and src/unnamed/part_000 ("hardened", the same workflow with  *)
(* a try/catch around each remote call).  One invocation of the handler    *)
(* is modelled; a remote call is two steps, the request being issued and   *)
(* the awaited promise settling.  The remote service is the environment:   *)
(* each remote call may throw, or answer with any of the response shapes   *)
(* the handler's code distinguishes.  The request stream is one that ends. *)
(*                                                                         *)
(* FormData is used as a global that the source does not import: what it   *)
(* is depends on the runtime, which is part of the environment (env).      *)
(***************************************************************************)
EXTENDS Integers, Sequences, FiniteSets, TLC

VARIABLES
    variant,        \* which source file runs: "basic" | "hardened"
    req,            \* the incoming request: method, body state, file, fileType
    env,            \* the process: apiKey (is FREECONVERT_API_KEY set), and
                    \* formData (what the global FormData is)
    pc,             \* position of the handler (the await it is suspended at)
    bodyRead,       \* whether the handler consumed the request stream
    inputFormat,    \* const inputFormat
    job,            \* const job (parsed create response), as its shape
    uploadUrl,      \* const uploadUrl
    uploadParams,   \* const uploadParams
    buffer,         \* const buffer (decoded payload), as its bytes
    formData,       \* const formData: the parts appended to it, in order
    uploadRes,      \* the remote's answer to the upload
    status,         \* let status
    exportUrl,      \* let exportUrl
    pollCount,      \* let pollCount
    pollJob,        \* the last parsed poll response
    compressedRes,  \* the remote's answer to the download
    compressedBuffer, \* const compressedBuffer, as its bytes
    jobRes,         \* the remote's answer to the create call
    pollRes,        \* the remote's answer to the last poll
    clock,          \* time units slept in setTimeout (1 unit = 1000 ms)
    calls,          \* outbound HTTP requests issued, by step
    log,            \* the outbound HTTP requests issued, in order
    inflight,       \* the outbound requests issued and not yet settled
    detailsLen,     \* length of the remote body that `details` of res carries
    invs,           \* the invocations that run side by side, each with its own locals
    jobs,           \* the number of jobs the remote has created for them
    okPolls,        \* polls so far that reported a status other than completed, failed
    completedAt,    \* the number of the first poll that reported completed, or 0
    res,            \* the HTTP response sent to the caller
    handler,        \* which process handler runs, "none" when it is a compress one
    request,        \* the request to the process handler: method, body state, file
    settings,       \* its process: hfToken (is HF_TOKEN set), globals (are the
                    \* globals FormData and Blob defined)
    at,             \* position of the process handler
    streamRead,     \* whether the process handler consumed the request stream
    outbound,       \* the requests the process handler made, in order
    awaited,        \* the requests of the process handler not yet settled
    endpoint,       \* the index in possibleEndpoints the loop is at
    failure,        \* e.message of the inference failure that was caught
    apiResponse,    \* let apiResponse
    answer          \* the HTTP response of the process handler

vars == <<variant, req, env, pc, bodyRead, inputFormat, job, uploadUrl,
          uploadParams, buffer, formData, uploadRes, status, exportUrl,
          pollCount, pollJob, compressedRes, compressedBuffer, jobRes, pollRes,
          clock, calls, log, inflight, detailsLen, invs, jobs, okPolls,
          completedAt, res, handler, request, settings, at, streamRead,
          outbound, awaited, endpoint, failure, apiResponse, answer>>

\* the variables of the process handlers
process == <<handler, request, settings, at, streamRead, outbound, awaited,
             endpoint, failure, apiResponse, answer>>

-----------------------------------------------------------------------------
(* Bounds and program constants *)

\* longest `file` string enumerated
MaxFileLen == 2

\* most form parameters in an upload target enumerated
MaxParams == 2

\* most groups of four characters in an enumerated base64 payload
MaxGroups == 2

\* most invocations that run side by side
MaxInvocations == 2

\* most polls of one invocation that the remote answers with 'processing'
\* when invocations run side by side
MaxPending == 2

\* longest array enumerated in an inference response
MaxItems == 3

\* largest remote response body enumerated, in characters
MaxBodyLen == 2

\* while (... && pollCount < 30)
MaxPolls == 30

\* setTimeout(r, 3000): 3 time units of 1000 ms
PollInterval == 3

-----------------------------------------------------------------------------
(* Values *)

Variants == {"basic", "hardened"}

\* "x" stands for any character other than the comma
Chars == {"x", ","}

RECURSIVE StringsUpTo(_)
StringsUpTo(n) ==
    IF n = 0 THEN {<<>>}
    ELSE LET shorter == StringsUpTo(n - 1)
         IN  shorter \cup {Append(s, c) : s \in {t \in shorter : Len(t) = n - 1}, c \in Chars}

JsString(s) == [type |-> "string", chars |-> s]
JsUndefined == [type |-> "undefined", chars |-> <<>>]
\* a truthy JSON value that is not a string (a number, an object, an array)
JsOther     == [type |-> "other", chars |-> <<>>]

FileValues == {JsUndefined, JsOther} \cup {JsString(s) : s \in StringsUpTo(MaxFileLen)}

FileTypeValues == {JsUndefined, JsOther, JsString(<<"x", "/", "x">>)}

\* !v for the values above
Falsy(v) == v.type = "undefined" \/ (v.type = "string" /\ v.chars = <<>>)

Methods == {"POST", "GET"}

\* req.body as the handler finds it: already an object ("parsed"), or absent
\* or a string, so that the stream is read and holds valid or invalid JSON
BodyStates == {"parsed", "stream_json", "stream_garbage"}

Requests == [method : Methods, body : BodyStates, file : FileValues,
             fileType : FileTypeValues]

\* err.message of the exceptions the handler can meet
NetworkError  == "request failed"
StreamError   == "Premature close"
JsonError     == "Unexpected token in JSON"
UrlError      == "Only absolute URLs are supported"
SplitError    == "split is not a function"
BufferError   == "The first argument must be of type string"
ValuesError   == "Cannot convert undefined or null to object"
NullError     == "Cannot read properties of null"
FormDataError == "FormData is not defined"
AppendError   == "parameter 2 is not of type 'Blob'"

\* The global FormData: the form-data package (append takes a Buffer and a
\* filename option), the runtime's own class (append with three arguments
\* throws unless the second is a Blob), or no such global
FormDataKinds == {"form-data", "web", "absent"}

-----------------------------------------------------------------------------
(* Responses: res.status(code).json({error, details}) or json({file}) *)

NoResponse == [code |-> 0, error |-> "", details |-> "", file |-> <<>>]

Json(code, error, details) ==
    [code |-> code, error |-> error, details |-> details, file |-> <<>>]

MethodNotAllowed == Json(405, "Method not allowed", "")
NoFileProvided   == Json(400, "No file provided", "")
MissingApiKey    == Json(500, "Missing FREECONVERT_API_KEY env variable", "")
CreateFailed(d)  == Json(500, "Failed to create FreeConvert job", d)
UploadFailed(d)  == Json(500, "Failed to upload file to FreeConvert", d)
CompressionFailed(d) == Json(500, "Compression failed", d)
NoExportUrl      == Json(500, "No export URL found", "")
DownloadFailed(d) == Json(500, "Failed to download compressed file", d)
\* the outer catch: { error: err.message || "Internal Server Error" }
OuterCatch(msg)  == Json(500, msg, "")

\* the values of `details` that are a remote response body, parsed or as text
RemoteDetails == {"job", "text", "pollJob"}

-----------------------------------------------------------------------------
(* String helpers of the handler *)

\* index of the first sep in s, or 0
RECURSIVE IndexFrom(_, _, _)
IndexFrom(s, sep, i) ==
    IF i > Len(s) THEN 0
    ELSE IF s[i] = sep THEN i
    ELSE IndexFrom(s, sep, i + 1)

\* s.split(sep)[1]: the text between the first and the second sep;
\* undefined when s holds no sep
SplitSecond(s, sep) ==
    LET i == IndexFrom(s, sep, 1)
    IN  IF i = 0 THEN JsUndefined
        ELSE LET rest == SubSeq(s, i + 1, Len(s))
                 j    == IndexFrom(rest, sep, 1)
             IN  JsString(IF j = 0 THEN rest ELSE SubSeq(rest, 1, j - 1))

\* The base64 alphabet; the character at position i stands for the value i - 1
B64Alphabet ==
    <<"A", "B", "C", "D", "E", "F", "G", "H", "I", "J", "K", "L", "M", "N", "O", "P",
      "Q", "R", "S", "T", "U", "V", "W", "X", "Y", "Z", "a", "b", "c", "d", "e", "f",
      "g", "h", "i", "j", "k", "l", "m", "n", "o", "p", "q", "r", "s", "t", "u", "v",
      "w", "x", "y", "z", "0", "1", "2", "3", "4", "5", "6", "7", "8", "9", "+", "/">>

\* the decoder also takes the URL-safe characters
IsB64(c) == c \in {"-", "_"} \/ \E i \in 1..64 : B64Alphabet[i] = c

B64Value(c) ==
    IF c = "-" THEN 62
    ELSE IF c = "_" THEN 63
    ELSE (CHOOSE i \in 1..64 : B64Alphabet[i] = c) - 1

\* the 6-bit values the decoder reads: it skips what is not a base64
\* character and stops at the first '='
RECURSIVE B64Values(_)
B64Values(text) ==
    IF text = <<>> \/ Head(text) = "=" THEN <<>>
    ELSE IF IsB64(Head(text)) THEN <<B64Value(Head(text))>> \o B64Values(Tail(text))
    ELSE B64Values(Tail(text))

\* a decoder that keeps whole groups of four characters only
RECURSIVE BytesOfValues_WholeGroups(_)
BytesOfValues_WholeGroups(v) ==
    IF Len(v) < 4 THEN <<>>
    ELSE <<v[1] * 4 + (v[2] \div 16), (v[2] % 16) * 16 + (v[3] \div 4),
           (v[3] % 4) * 64 + v[4]>>
         \o BytesOfValues_WholeGroups(SubSeq(v, 5, Len(v)))

\* groups of four values give three bytes; three values left over give two
\* bytes, two give one, one gives none
RECURSIVE BytesOfValues(_)
BytesOfValues(v) ==
    IF Len(v) < 2 THEN <<>>
    ELSE LET b1 == v[1] * 4 + (v[2] \div 16)
         IN  IF Len(v) = 2 THEN <<b1>>
             ELSE LET b2 == (v[2] % 16) * 16 + (v[3] \div 4)
                  IN  IF Len(v) = 3 THEN <<b1, b2>>
                      ELSE <<b1, b2, (v[3] % 4) * 64 + v[4]>>
                           \o BytesOfValues(SubSeq(v, 5, Len(v)))

\* Buffer.from(text, 'base64')
Base64Decode(text) == BytesOfValues(B64Values(text))

\* buffer.toString('base64')
RECURSIVE Base64Encode(_)
Base64Encode(b) ==
    IF b = <<>> THEN <<>>
    ELSE LET c1 == B64Alphabet[(b[1] \div 4) + 1]
         IN  IF Len(b) = 1
             THEN <<c1, B64Alphabet[(b[1] % 4) * 16 + 1], "=", "=">>
             ELSE LET c2 == B64Alphabet[(b[1] % 4) * 16 + (b[2] \div 16) + 1]
                  IN  IF Len(b) = 2
                      THEN <<c1, c2, B64Alphabet[(b[2] % 16) * 4 + 1], "=">>
                      ELSE <<c1, c2,
                             B64Alphabet[(b[2] % 16) * 4 + (b[3] \div 64) + 1],
                             B64Alphabet[(b[3] % 64) + 1]>>
                           \o Base64Encode(SubSeq(b, 4, Len(b)))

\* `data:audio/mp3;base64,${compressedBuffer.toString('base64')}`
DataUrl(bytes) == <<"data:audio/mp3;base64", ",">> \o Base64Encode(bytes)

\* res.status(200).json({ file: base64Compressed })
Success(bytes) == [code |-> 200, error |-> "", details |-> "", file |-> DataUrl(bytes)]

\* (fileType && fileType.split('/')[1]) || "mp3"
\* threw: fileType is truthy and has no split method
InputFormatOf(fileType) ==
    IF Falsy(fileType) THEN [threw |-> FALSE, format |-> <<"m", "p", "3">>]
    ELSE IF fileType.type # "string" THEN [threw |-> TRUE, format |-> <<>>]
    ELSE LET part == SplitSecond(fileType.chars, "/")
         IN  [threw |-> FALSE,
              format |-> IF Falsy(part) THEN <<"m", "p", "3">> ELSE part.chars]

\* const base64Data = file.split(',')[1]; const buffer = Buffer.from(base64Data, 'base64')
\* bytes: the decoded buffer
DecodePayload(file) ==
    IF file.type # "string"
    THEN [threw |-> TRUE, msg |-> SplitError, bytes |-> <<>>]
    ELSE LET base64Data == SplitSecond(file.chars, ",")
         IN  IF base64Data.type = "undefined"
             THEN [threw |-> TRUE, msg |-> BufferError, bytes |-> <<>>]
             ELSE [threw |-> FALSE, msg |-> "",
                   bytes |-> Base64Decode(base64Data.chars)]

-----------------------------------------------------------------------------
(* The remote service: what each call can come back with *)

\* The digits, in order: the digit at position i stands for i - 1
Digits == <<"0", "1", "2", "3", "4", "5", "6", "7", "8", "9">>

IsDigit(c) == \E i \in 1..10 : Digits[i] = c

DigitValue(c) == (CHOOSE i \in 1..10 : Digits[i] = c) - 1

\* A property name that is a canonical array index: decimal digits with no
\* leading zero
IsArrayIndex(k) ==
    /\ k # <<>>
    /\ \A i \in 1..Len(k) : IsDigit(k[i])
    /\ (Len(k) = 1 \/ k[1] # "0")

RECURSIVE IndexValue(_)
IndexValue(k) ==
    IF k = <<>> THEN 0
    ELSE IndexValue(SubSeq(k, 1, Len(k) - 1)) * 10 + DigitValue(k[Len(k)])

\* names of form parameters an upload target may carry
ParamKeys == {<<"b">>, <<"a">>, <<"2">>, <<"1", "0">>}

Field(k) == [key |-> k, value |-> "v"]

\* no two members of l have the same name
DistinctKeys(l) == \A i, j \in 1..Len(l) : i # j => l[i].key # l[j].key

\* the members of a JSON object as the remote wrote them: lists of at most n
\* members with distinct names
RECURSIVE ParamLists(_)
ParamLists(n) ==
    IF n = 0 THEN {<<>>}
    ELSE LET prev == ParamLists(n - 1)
         IN  prev \cup {x \in {Append(l, Field(k)) : l \in prev, k \in ParamKeys} :
                            DistinctKeys(x)}

\* The parsed body of the create response, by the fields the handler reads:
\* job.tasks.import.result.form and, in it, url and parameters (fields: the
\* members of parameters as the remote wrote them)
JobShapesWith(lists) ==
    {[form |-> FALSE, url |-> FALSE, parameters |-> FALSE, fields |-> <<>>]}
    \cup [form : {TRUE}, url : BOOLEAN, parameters : {FALSE}, fields : {<<>>}]
    \cup [form : {TRUE}, url : BOOLEAN, parameters : {TRUE}, fields : lists]

JobShapes == JobShapesWith({<<Field(<<"a">>)>>})

NoJob == [form |-> FALSE, url |-> FALSE, parameters |-> FALSE, fields |-> <<>>]

\* fetch throws, or a response arrives: its content type, and its body, which
\* may fail while it is read, may not be JSON, may be the JSON null, or is a job
CreateOutcomesWith(shapes) ==
    {[kind |-> "throw", ct |-> "", body |-> "", job |-> NoJob]}
    \cup [kind : {"response"}, ct : {"json", "other"},
          body : {"unreadable", "notjson", "null"}, job : {NoJob}]
    \cup [kind : {"response"}, ct : {"json", "other"}, body : {"job"}, job : shapes]

CreateOutcomes == CreateOutcomesWith(JobShapes)

UploadOutcomes == {"throw", "ok", "not_ok", "not_ok_unreadable"}

Statuses == {"pending", "processing", "completed", "failed"}

\* pollJob.tasks, by what the search for the export task finds in it
TaskShapes == {"undefined", "no_export", "export_no_result", "export_no_files",
               "export_empty_files", "export_file_no_url", "export_url"}

\* A job that is not completed has no export result yet
PollJobs ==
    [status : {"completed"}, tasks : TaskShapes]
    \cup [status : Statuses \ {"completed"}, tasks : {"undefined", "export_no_result"}]

NoPollJob == [status |-> "", tasks |-> "undefined"]

PollOutcomes ==
    {[kind |-> "throw", ct |-> "", body |-> "", job |-> NoPollJob]}
    \cup [kind : {"response"}, ct : {"json", "other"},
          body : {"unreadable", "notjson", "null"}, job : {NoPollJob}]
    \cup [kind : {"response"}, ct : {"json", "other"}, body : {"job"}, job : PollJobs]

\* the download: fetch throws, or a response of any HTTP status arrives whose
\* body can or cannot be read
DownloadOutcomesWith(bodies) ==
    {[kind |-> k, bytes |-> <<>>] : k \in {"throw", "unreadable"}}
    \cup [kind : {"ok", "not_ok"}, bytes : bodies]

DownloadOutcomes == DownloadOutcomesWith({<<>>, <<77>>})

\* lengths of the body of a remote response
BodySizes == 1..MaxBodyLen

-----------------------------------------------------------------------------
(* The decisions of the handler, as functions of what it has in hand *)

Responded(r) == [done |-> TRUE, res |-> r]
GoOn == [done |-> FALSE, res |-> NoResponse]

\* Step 1, from the fetch to the parsed job and the read of job.tasks: which
\* outcomes end the invocation, and with what response
ReadJobResponse(v, out) ==
    IF v = "basic"
    THEN \* const job = await jobRes.json(), under the outer try only
         IF out.kind = "throw" THEN Responded(OuterCatch(NetworkError))
         ELSE IF out.body = "unreadable" THEN Responded(OuterCatch(StreamError))
         ELSE IF out.body = "notjson" THEN Responded(OuterCatch(JsonError))
         ELSE IF out.body = "null" THEN Responded(OuterCatch(NullError))
         ELSE GoOn
    ELSE \* try { fetch; content-type test; json() or text() } catch (e)
         IF out.kind = "throw" THEN Responded(CreateFailed(NetworkError))
         ELSE IF out.body = "unreadable" THEN Responded(CreateFailed(StreamError))
         ELSE IF out.ct # "json" THEN Responded(CreateFailed("text"))
         ELSE IF out.body = "notjson" THEN Responded(CreateFailed(JsonError))
         ELSE IF out.body = "null" THEN Responded(OuterCatch(NullError))
         ELSE GoOn

\* a handler that does not look at the API key
MissingKey_NotTested(e) == FALSE

\* !process.env.FREECONVERT_API_KEY
MissingKey(e) == ~e.apiKey

\* the negation of
\* !job.tasks || !job.tasks.import || !job.tasks.import.result || !job.tasks.import.result.form
HasUploadForm(j) == j.form

\* a handler that does not test uploadRes.ok
ReadUploadResponse_OkNotTested(v, out) ==
    IF out = "rejected"
    THEN Responded(IF v = "basic" THEN OuterCatch(UrlError) ELSE UploadFailed(UrlError))
    ELSE IF out = "throw"
    THEN Responded(IF v = "basic" THEN OuterCatch(NetworkError)
                   ELSE UploadFailed(NetworkError))
    ELSE GoOn

\* a hardened variant that carries on when the error body of a refused
\* upload cannot be read
ReadUploadResponse_UnreadableIgnored(v, out) ==
    IF out = "rejected"
    THEN Responded(IF v = "basic" THEN OuterCatch(UrlError) ELSE UploadFailed(UrlError))
    ELSE IF out = "throw"
    THEN Responded(IF v = "basic" THEN OuterCatch(NetworkError)
                   ELSE UploadFailed(NetworkError))
    ELSE IF out = "not_ok" THEN Responded(UploadFailed("text"))
    ELSE IF out = "not_ok_unreadable" /\ v = "basic"
    THEN Responded(OuterCatch(StreamError))
    ELSE GoOn

\* fetch(uploadUrl, ...) and the test of uploadRes.ok
ReadUploadResponse(v, out) ==
    IF v = "basic"
    THEN IF out = "rejected" THEN Responded(OuterCatch(UrlError))
         ELSE IF out = "throw" THEN Responded(OuterCatch(NetworkError))
         ELSE IF out = "not_ok" THEN Responded(UploadFailed("text"))
         ELSE IF out = "not_ok_unreadable" THEN Responded(OuterCatch(StreamError))
         ELSE GoOn
    ELSE IF out = "rejected" THEN Responded(UploadFailed(UrlError))
         ELSE IF out = "throw" THEN Responded(UploadFailed(NetworkError))
         ELSE IF out = "not_ok" THEN Responded(UploadFailed("text"))
         ELSE IF out = "not_ok_unreadable" THEN Responded(UploadFailed("Unknown error"))
         ELSE GoOn

\* a loop that allows one pass more than the budget
LoopContinues_OffByOne(st, n) == st # "completed" /\ n <= MaxPolls

\* a loop that tests the budget only
LoopContinues_BudgetOnly(st, n) == n < MaxPolls

\* while (status !== 'completed' && pollCount < 30)
LoopContinues(st, n) == st # "completed" /\ n < MaxPolls

\* new FormData(): the global is the form-data package's, the platform's, or
\* not defined; only the first takes a Buffer with an options object
BuildForm(fd) ==
    IF fd = "absent" THEN [threw |-> TRUE, msg |-> FormDataError]
    ELSE IF fd = "web" THEN [threw |-> TRUE, msg |-> AppendError]
    ELSE [threw |-> FALSE, msg |-> ""]

\* the members of l whose names are array indices
RECURSIVE IndexFields(_)
IndexFields(l) ==
    IF l = <<>> THEN <<>>
    ELSE IF IsArrayIndex(Head(l).key) THEN <<Head(l)>> \o IndexFields(Tail(l))
    ELSE IndexFields(Tail(l))

\* the members of l whose names are not array indices
RECURSIVE NamedFields(_)
NamedFields(l) ==
    IF l = <<>> THEN <<>>
    ELSE IF IsArrayIndex(Head(l).key) THEN NamedFields(Tail(l))
    ELSE <<Head(l)>> \o NamedFields(Tail(l))

\* l in ascending order of the index its names stand for
RECURSIVE SortByIndex(_)
SortByIndex(l) ==
    IF l = <<>> THEN <<>>
    ELSE LET m == CHOOSE i \in 1..Len(l) :
                      \A j \in 1..Len(l) : IndexValue(l[i].key) <= IndexValue(l[j].key)
         IN  <<l[m]>> \o SortByIndex(SubSeq(l, 1, m - 1) \o SubSeq(l, m + 1, Len(l)))

\* for (const key in uploadParams): the own properties of a parsed JSON
\* object, array indices first in ascending order, then the other names in
\* the order they were written; nothing for undefined
ForIn(params) ==
    IF ~params.defined THEN <<>>
    ELSE SortByIndex(IndexFields(params.fields)) \o NamedFields(params.fields)

ParamPart(f) == [name |-> f.key, text |-> f.value, bytes |-> <<>>, filename |-> <<>>]

\* formData.append('file', buffer, { filename: `audio.${inputFormat}` })
FilePart(bytes, format) ==
    [name |-> <<"file">>, text |-> "", bytes |-> bytes, filename |-> <<"audio.">> \o format]

\* a form that takes the file before the parameters
AppendAll_FileFirst(params, bytes, format) ==
    <<FilePart(bytes, format)>>
    \o [i \in 1..Len(ForIn(params)) |-> ParamPart(ForIn(params)[i])]

\* the appends to formData: one per key of uploadParams, then the file
AppendAll(params, bytes, format) ==
    [i \in 1..Len(ForIn(params)) |-> ParamPart(ForIn(params)[i])]
    \o <<FilePart(bytes, format)>>

\* a handler whose poll is not ended by a failure of the transport
ReadPollResponse_RetryOnThrow(v, out) ==
    IF out.kind = "throw" THEN GoOn
    ELSE IF out.body = "unreadable"
    THEN Responded(IF v = "basic" THEN OuterCatch(StreamError)
                   ELSE CompressionFailed(StreamError))
    ELSE IF v # "basic" /\ out.ct # "json" THEN Responded(CompressionFailed("text"))
    ELSE IF out.body = "notjson"
    THEN Responded(IF v = "basic" THEN OuterCatch(JsonError)
                   ELSE CompressionFailed(JsonError))
    ELSE IF out.body = "null" THEN Responded(OuterCatch(NullError))
    ELSE GoOn

\* from the poll's fetch to the parsed pollJob and the read of its status
ReadPollResponse(v, out) ==
    IF v = "basic"
    THEN IF out.kind = "throw" THEN Responded(OuterCatch(NetworkError))
         ELSE IF out.body = "unreadable" THEN Responded(OuterCatch(StreamError))
         ELSE IF out.body = "notjson" THEN Responded(OuterCatch(JsonError))
         ELSE IF out.body = "null" THEN Responded(OuterCatch(NullError))
         ELSE GoOn
    ELSE IF out.kind = "throw" THEN Responded(CompressionFailed(NetworkError))
         ELSE IF out.body = "unreadable" THEN Responded(CompressionFailed(StreamError))
         ELSE IF out.ct # "json" THEN Responded(CompressionFailed("text"))
         ELSE IF out.body = "notjson" THEN Responded(CompressionFailed(JsonError))
         ELSE IF out.body = "null" THEN Responded(OuterCatch(NullError))
         ELSE GoOn

\* Object.values(pollJob.tasks).find(t => t.operation === 'export/url') and the
\* test exportTask && exportTask.result && exportTask.result.files &&
\* exportTask.result.files[0]; url: the new value of exportUrl
FindExportUrl(tasks, old) ==
    IF tasks = "undefined" THEN [threw |-> TRUE, url |-> old]
    ELSE IF tasks = "export_url" THEN [threw |-> FALSE, url |-> "url"]
    ELSE IF tasks = "export_file_no_url" THEN [threw |-> FALSE, url |-> "undefined"]
    ELSE [threw |-> FALSE, url |-> old]

\* !exportUrl
NoUrl(u) == u = "" \/ u = "undefined"

\* a loop body without the return on 'failed'
PollStep_NoReturnOnFailed(pj, oldUrl) ==
    IF pj.status = "completed"
    THEN LET f == FindExportUrl(pj.tasks, oldUrl)
         IN  IF f.threw
             THEN [done |-> TRUE, res |-> OuterCatch(ValuesError), url |-> oldUrl]
             ELSE [done |-> FALSE, res |-> NoResponse, url |-> f.url]
    ELSE [done |-> FALSE, res |-> NoResponse, url |-> oldUrl]

\* the body of the loop after pollJob is parsed: status = pollJob.status, the
\* search of the export URL on 'completed', the return on 'failed'
PollStep(pj, oldUrl) ==
    IF pj.status = "completed"
    THEN LET f == FindExportUrl(pj.tasks, oldUrl)
         IN  IF f.threw
             THEN [done |-> TRUE, res |-> OuterCatch(ValuesError), url |-> oldUrl]
             ELSE [done |-> FALSE, res |-> NoResponse, url |-> f.url]
    ELSE IF pj.status = "failed"
    THEN [done |-> TRUE, res |-> CompressionFailed("pollJob"), url |-> oldUrl]
    ELSE [done |-> FALSE, res |-> NoResponse, url |-> oldUrl]

\* a handler that does not test exportUrl after the loop
AfterLoop_NotTested(u) == GoOn

\* after the loop: if (!exportUrl) return res.status(500)...
AfterLoop(u) == IF NoUrl(u) THEN Responded(NoExportUrl) ELSE GoOn

\* a handler whose download is outside every try
ReadDownload_Uncaught(v, out) ==
    IF out.kind \in {"throw", "unreadable"} THEN NoResponse ELSE Success(out.bytes)

\* step 4: fetch(exportUrl), arrayBuffer(), the data URL
ReadDownload(v, out) ==
    IF out.kind \in {"throw", "unreadable"}
    THEN IF v = "basic"
         THEN OuterCatch(IF out.kind = "throw" THEN NetworkError ELSE StreamError)
         ELSE DownloadFailed(IF out.kind = "throw" THEN NetworkError ELSE StreamError)
    ELSE Success(out.bytes)

\* details: job, details: errText, details: pollJob: what is sent of a
\* remote body of n characters
DetailsLength(n) == n

-----------------------------------------------------------------------------
(* The process handlers: values and decisions.  Four handlers are modelled: *)
(* "client" (src/api/process.js:5-195, the Gradio client), "probing"       *)
(* (src/api/process.js:200-401, three endpoints and a JSON fallback),      *)
(* "alternative" (src/unnamed/part_001, a primary and an alternative       *)
(* endpoint) and "express" (src/server.js:31-186, the same behind the      *)
(* express route, which takes POST only and a body parsed by middleware).  *)

ServerlessHandlers == {"client", "probing", "alternative"}

ProcessHandlers == ServerlessHandlers \cup {"express"}

\* requests to a process handler
ProcessRequests(h) ==
    IF h = "express"
    THEN [method : {"POST"}, body : {"parsed"}, file : FileValues]
    ELSE [method : Methods, body : BodyStates, file : FileValues]

\* A member of a JSON value as the handler sees it: absent, an empty string
\* or a text
Members == {"undefined", "", "t"}

\* !x for such a member
Empty(x) == x \in {"undefined", "", "null"}

\* the arrays of at most n members
ItemLists(n) == UNION {[1..k -> {"", "t"}] : k \in 0..n}

\* l[i - 1] of the source: undefined past the end
Item(l, i) == IF i <= Len(l) THEN l[i] ELSE "undefined"

NoData == [is |-> "absent", items |-> <<>>]

\* R.data: absent, a value that is not an array, or an array
DataValues ==
    {NoData, [is |-> "scalar", items |-> <<>>]}
    \cup {[is |-> "array", items |-> l] : l \in ItemLists(MaxItems)}

NoApiResponse ==
    [kind |-> "undefined", data |-> NoData, original |-> "undefined",
     cleaned |-> "undefined", audio |-> "undefined", items |-> <<>>]

\* The JSON values an inference call can return: null, a string or number,
\* an object with any of data, original, cleaned, audio, or an array
ApiResponses ==
    {[NoApiResponse EXCEPT !.kind = k] : k \in {"null", "scalar"}}
    \cup [kind : {"object"}, data : DataValues, original : Members,
          cleaned : Members, audio : {"undefined", "t"}, items : {<<>>}]
    \cup [kind : {"array"}, data : {NoData}, original : {"undefined"},
          cleaned : {"undefined"}, audio : {"undefined"}, items : ItemLists(MaxItems)]

\* responses of a process handler: status, error, the three results, and the
\* names of the fields of the JSON body
NoAnswer == [code |-> 0, error |-> "", original |-> "", cleaned |-> "", audio |-> "",
             fields |-> {}]

\* res.status(code).json({ error: msg })
ErrorAnswer(code, msg) ==
    [code |-> code, error |-> msg, original |-> "", cleaned |-> "", audio |-> "",
     fields |-> {"error"}]

Unavailable == "The CleanSong API is not available. This is a fallback response"

NoOriginal == "No original lyrics found"

NoCleaned == "No cleaned lyrics found"

\* the fallback body: res.status(200).json({ original, cleaned, audio: null, error, note })
Fallback(msg) ==
    [code |-> 200, error |-> msg, original |-> Unavailable, cleaned |-> Unavailable,
     audio |-> "null", fields |-> {"original", "cleaned", "audio", "error", "note"}]

\* res.status(200).json({ original: original || "...", cleaned: cleaned || "...",
\* audio: audio || null })
Lyrics(o, c, a) ==
    [code |-> 200, error |-> "",
     original |-> IF Empty(o) THEN NoOriginal ELSE o,
     cleaned |-> IF Empty(c) THEN NoCleaned ELSE c,
     audio |-> IF Empty(a) THEN "null" ELSE a,
     fields |-> {"original", "cleaned", "audio"}]

\* messages of the process handlers
MissingToken      == "Missing HF_TOKEN environment variable"
MissingTokenHint  == "Missing HF_TOKEN environment variable. Please set it with:"
InvalidEncoding   == "Invalid file encoding"
UnknownFormat     == "Unknown response format from Gradio API"
UnexpectedFormat  == "Unexpected response format from CleanSong API"
StringifyError    == "Cannot read properties of undefined (reading 'substring')"
HtmlError         == "Gradio space returned HTML instead of JSON"
SpaceError        == "Gradio space error"
AlternativeFailed == "Alternative endpoint also failed"
AllFailed         == "All CleanSong endpoints and formats failed"
ClientFailed      == "Gradio client failed"

\* if (apiResponse.data && Array.isArray(apiResponse.data)) ... else if
\* (apiResponse.original && apiResponse.cleaned) ... else if
\* (Array.isArray(apiResponse) && apiResponse.length >= 2) ... else unknown;
\* threw: apiResponse is null, of which .data cannot be read
MapResponse(R) ==
    IF R.kind \in {"null", "undefined"}
    THEN [threw |-> TRUE, unknown |-> FALSE, original |-> "", cleaned |-> "", audio |-> ""]
    ELSE IF R.data.is = "array"
    THEN [threw |-> FALSE, unknown |-> FALSE, original |-> Item(R.data.items, 1),
          cleaned |-> Item(R.data.items, 2), audio |-> Item(R.data.items, 3)]
    ELSE IF ~Empty(R.original) /\ ~Empty(R.cleaned)
    THEN [threw |-> FALSE, unknown |-> FALSE, original |-> R.original,
          cleaned |-> R.cleaned, audio |-> R.audio]
    ELSE IF R.kind = "array" /\ Len(R.items) >= 2
    THEN [threw |-> FALSE, unknown |-> FALSE, original |-> Item(R.items, 1),
          cleaned |-> Item(R.items, 2), audio |-> Item(R.items, 3)]
    ELSE [threw |-> FALSE, unknown |-> TRUE, original |-> "", cleaned |-> "", audio |-> ""]

\* the answer made from apiResponse: in the client handler an array of two
\* members or more, anything else being unexpected (JSON.stringify of
\* undefined has no substring); in the others the mapping above
ReadApiResponse(h, R) ==
    IF h = "client"
    THEN IF R.kind = "array" /\ Len(R.items) >= 2
         THEN Lyrics(Item(R.items, 1), Item(R.items, 2), Item(R.items, 3))
         ELSE IF R.kind = "undefined" THEN ErrorAnswer(500, StringifyError)
         ELSE ErrorAnswer(500, UnexpectedFormat)
    ELSE LET m == MapResponse(R)
         IN  IF m.threw THEN ErrorAnswer(500, NullError)
             ELSE IF m.unknown THEN ErrorAnswer(500, UnknownFormat)
             ELSE Lyrics(m.original, m.cleaned, m.audio)

\* file.split(",")[1] and Buffer.from(base64Audio, "base64") inside their try
DecodeFails(file) == DecodePayload(file).threw

\* What an inference request can come back with: fetch throws, or a response
\* with a status that is ok or not, a content type, and a body that cannot
\* be read, is not JSON, or is the JSON value R
NoOutcome == [kind |-> "throw", ok |-> FALSE, ct |-> "", body |-> "", R |-> NoApiResponse]

InferenceOutcomesWith(values) ==
    {NoOutcome}
    \cup [kind : {"response"}, ok : BOOLEAN, ct : {"json", "other"},
          body : {"unreadable", "notjson"}, R : {NoApiResponse}]
    \cup [kind : {"response"}, ok : {FALSE}, ct : {"json", "other"},
          body : {"json"}, R : {NoApiResponse}]
    \cup [kind : {"response"}, ok : {TRUE}, ct : {"json", "other"},
          body : {"json"}, R : values]

InferenceOutcomes == InferenceOutcomesWith(ApiResponses)

\* The answers to a request of which the handler reads neither the content
\* type nor, when the status is not ok, more than whether the text arrives
ProbeOutcomes ==
    {o \in InferenceOutcomes :
        o.kind = "response" => o.ct = "json" /\ (~o.ok => o.body # "notjson")}

\* the answers to the request for the API information, whose content is
\* only logged
InfoOutcomes ==
    {o \in InferenceOutcomesWith({NoApiResponse}) : o.kind = "response" => o.ct = "json"}

\* Client.connect: the application, or an error
ConnectOutcomes == {o \in InfoOutcomes : o.kind = "throw" \/ (o.ok /\ o.body = "json" /\ o.ct = "json")}

\* app.predict: an error, or a result whose data is any JSON value or absent
PredictOutcomes ==
    {o \in InferenceOutcomesWith(ApiResponses \cup {NoApiResponse}) :
        o.kind = "throw" \/ (o.ok /\ o.body = "json" /\ o.ct = "json")}

\* await response.json(): the value, or the error thrown
ReadJson(out) ==
    IF out.body = "unreadable" THEN [failed |-> TRUE, msg |-> StreamError, R |-> NoApiResponse]
    ELSE IF out.body = "notjson" THEN [failed |-> TRUE, msg |-> JsonError, R |-> NoApiResponse]
    ELSE [failed |-> FALSE, msg |-> "", R |-> out.R]

\* await response.text() and the error thrown after it
ReadTextThenThrow(out, msg) ==
    [failed |-> TRUE, msg |-> IF out.body = "unreadable" THEN StreamError ELSE msg,
     R |-> NoApiResponse]

\* the primary call of the alternative and express handlers: the fetch, the
\* content-type test, the test of response.ok, response.json()
PrimaryResult(out) ==
    IF out.kind = "throw" THEN [failed |-> TRUE, msg |-> NetworkError, R |-> NoApiResponse]
    ELSE IF out.ct # "json" THEN ReadTextThenThrow(out, HtmlError)
    ELSE IF ~out.ok THEN ReadTextThenThrow(out, SpaceError)
    ELSE ReadJson(out)

\* the alternative call: the fetch, the test of altResponse.ok, json()
AlternativeResult(out) ==
    IF out.kind = "throw" THEN [failed |-> TRUE, msg |-> NetworkError, R |-> NoApiResponse]
    ELSE IF ~out.ok THEN [failed |-> TRUE, msg |-> AlternativeFailed, R |-> NoApiResponse]
    ELSE ReadJson(out)

\* a fallback body that reports the failure of the alternative call
FallbackError_OfAlternative(primary, alternative) == alternative

\* error: e.message, e being the error caught from the primary call
FallbackError(primary, alternative) == primary

\* a loop over the endpoints without the break
ProbeSucceeded_NoBreak(out) == FALSE

\* if (response.ok) { workingEndpoint = endpoint; break; }
ProbeSucceeded(out) == out.kind = "response" /\ out.ok

\* possibleEndpoints
PossibleEndpoints == <<"/run/predict", "/api/predict/", "huggingface.co/api/predict/">>

-----------------------------------------------------------------------------
(* The state machine *)

NoParams == [defined |-> FALSE, fields |-> <<>>]

NoCallsYet == [create |-> 0, upload |-> 0, poll |-> 0, download |-> 0]

\* the locals of a compress handler before its first statement
Blank ==
    /\ bodyRead = FALSE
    /\ inputFormat = <<>>
    /\ job = NoJob
    /\ uploadUrl = ""
    /\ uploadParams = NoParams
    /\ buffer = <<>>
    /\ formData = <<>>
    /\ jobRes = "none"
    /\ uploadRes = "none"
    /\ status = ""
    /\ exportUrl = ""
    /\ pollCount = 0
    /\ pollRes = "none"
    /\ pollJob = NoPollJob
    /\ compressedRes = "none"
    /\ compressedBuffer = <<>>
    /\ clock = 0
    /\ calls = NoCallsYet
    /\ log = <<>>
    /\ inflight = {}
    /\ detailsLen = 0
    /\ okPolls = 0
    /\ completedAt = 0
    /\ res = NoResponse

\* no process handler runs
NoProcess ==
    /\ handler = "none"
    /\ request = [method |-> "", body |-> "", file |-> JsUndefined]
    /\ settings = [hfToken |-> FALSE, globals |-> FALSE]
    /\ at = "none"
    /\ streamRead = FALSE
    /\ outbound = <<>>
    /\ awaited = {}
    /\ endpoint = 0
    /\ failure = ""
    /\ apiResponse = NoApiResponse
    /\ answer = NoAnswer

\* the state of a compress invocation whose request and environment are given
Start == pc = "start" /\ Blank /\ NoProcess

\* no other invocation runs
Alone == invs = <<>> /\ jobs = 0

Init ==
    /\ variant \in Variants
    /\ req \in Requests
    /\ env \in [apiKey : BOOLEAN, formData : FormDataKinds]
    /\ Start
    /\ Alone

locals == <<inputFormat, job, uploadUrl, uploadParams, buffer, formData, status,
            exportUrl, pollCount, pollJob, compressedBuffer>>
remote == <<jobRes, uploadRes, pollRes, compressedRes, okPolls, completedAt>>
wire   == <<calls, log, inflight>>
conc   == <<invs, jobs>>

\* an outbound request: the step it belongs to, its method, what it addresses
Request(call, method, target) == [call |-> call, method |-> method, target |-> target]

\* the length of `details` of response r when the remote body had n characters
DetailsOf(r, n) == IF r.details \in RemoteDetails THEN DetailsLength(n) ELSE 0

\* if (req.method !== "POST") return res.status(405)...
CheckMethod ==
    /\ pc = "start"
    /\ IF req.method # "POST"
       THEN res' = MethodNotAllowed /\ pc' = "done"
       ELSE res' = res /\ pc' = "parse"
    /\ UNCHANGED <<conc, process, variant, req, env, bodyRead, locals, remote, wire, detailsLen, clock>>

\* if (!req.body || typeof req.body === "string") req.body = await new Promise(...)
ParseBody ==
    /\ pc = "parse"
    /\ bodyRead' = (req.body # "parsed")
    /\ IF req.body = "stream_garbage"
       THEN res' = OuterCatch(JsonError) /\ pc' = "done"
       ELSE res' = res /\ pc' = "validate"
    /\ UNCHANGED <<conc, process, variant, req, env, locals, remote, wire, detailsLen, clock>>

\* a handler that tests the API key before the file
Validate_KeyFirst ==
    /\ pc = "validate"
    /\ LET f == InputFormatOf(req.fileType)
       IN  IF MissingKey(env)
           THEN res' = MissingApiKey /\ pc' = "done" /\ inputFormat' = inputFormat
           ELSE IF Falsy(req.file)
           THEN res' = NoFileProvided /\ pc' = "done" /\ inputFormat' = inputFormat
           ELSE IF f.threw
           THEN res' = OuterCatch(SplitError) /\ pc' = "done"
                /\ inputFormat' = inputFormat
           ELSE res' = res /\ pc' = "create" /\ inputFormat' = f.format
    /\ UNCHANGED <<conc, process, variant, req, env, bodyRead, job, uploadUrl, uploadParams,
                   buffer, formData, status, exportUrl, pollCount, pollJob,
                   compressedBuffer, remote, wire, detailsLen, clock>>

\* the tests of file and of FREECONVERT_API_KEY, and const inputFormat
Validate ==
    /\ pc = "validate"
    /\ LET f == InputFormatOf(req.fileType)
       IN  IF Falsy(req.file)
           THEN res' = NoFileProvided /\ pc' = "done" /\ inputFormat' = inputFormat
           ELSE IF MissingKey(env)
           THEN res' = MissingApiKey /\ pc' = "done" /\ inputFormat' = inputFormat
           ELSE IF f.threw
           THEN res' = OuterCatch(SplitError) /\ pc' = "done"
                /\ inputFormat' = inputFormat
           ELSE res' = res /\ pc' = "create" /\ inputFormat' = f.format
    /\ UNCHANGED <<conc, process, variant, req, env, bodyRead, job, uploadUrl, uploadParams,
                   buffer, formData, status, exportUrl, pollCount, pollJob,
                   compressedBuffer, remote, wire, detailsLen, clock>>

\* 1. Create job: fetch("https://api.freeconvert.com/v1/process/jobs", POST)
IssueCreate ==
    /\ pc = "create"
    /\ pc' = "create_wait"
    /\ calls' = [calls EXCEPT !.create = @ + 1]
    /\ log' = Append(log, Request("create", "POST", "jobs"))
    /\ inflight' = inflight \cup {"create"}
    /\ UNCHANGED <<conc, process, variant, req, env, bodyRead, locals, remote, detailsLen, clock, res>>

\* the create call settles; then uploadUrl, uploadParams, the decoding of
\* file and the form data, up to the upload's fetch
CreateJob(outs) ==
    /\ pc = "create_wait"
    /\ inflight' = inflight \ {"create"}
    /\ \E out \in outs, n \in BodySizes :
         LET r == ReadJobResponse(variant, out)
             d == DecodePayload(req.file)
             b == BuildForm(env.formData)
             params == [defined |-> out.job.parameters, fields |-> out.job.fields]
         IN  /\ jobRes' = IF out.kind = "throw" THEN "throw"
                           ELSE IF r.done THEN "unparsed" ELSE "parsed"
             /\ IF r.done
                THEN /\ res' = r.res /\ pc' = "done"
                     /\ UNCHANGED <<job, uploadUrl, uploadParams, buffer, formData>>
                ELSE IF ~HasUploadForm(out.job)
                THEN /\ res' = CreateFailed("job") /\ pc' = "done"
                     /\ job' = out.job
                     /\ UNCHANGED <<uploadUrl, uploadParams, buffer, formData>>
                ELSE /\ job' = out.job
                     /\ uploadUrl' = IF out.job.url THEN "url" ELSE "undefined"
                     /\ uploadParams' = params
                     /\ IF d.threw
                        THEN res' = OuterCatch(d.msg) /\ pc' = "done"
                             /\ UNCHANGED <<buffer, formData>>
                        ELSE IF b.threw
                        THEN res' = OuterCatch(b.msg) /\ pc' = "done"
                             /\ buffer' = d.bytes /\ formData' = formData
                        ELSE /\ res' = res /\ pc' = "upload" /\ buffer' = d.bytes
                             /\ formData' = AppendAll(params, d.bytes, inputFormat)
             /\ detailsLen' = DetailsOf(res', n)
    /\ UNCHANGED <<conc, process, variant, req, env, bodyRead, inputFormat, status, exportUrl,
                   pollCount, pollJob, compressedBuffer, uploadRes, pollRes,
                   compressedRes, okPolls, completedAt, calls, log, clock>>

\* 2. Upload the file: fetch(uploadUrl, POST, formData).  fetch(undefined)
\* returns a rejected promise and makes no request.
IssueUpload ==
    /\ pc = "upload"
    /\ pc' = "upload_wait"
    /\ IF uploadUrl = "undefined"
       THEN UNCHANGED wire
       ELSE /\ calls' = [calls EXCEPT !.upload = @ + 1]
            /\ log' = Append(log, Request("upload", "POST", "uploadUrl"))
            /\ inflight' = inflight \cup {"upload"}
    /\ UNCHANGED <<conc, process, variant, req, env, bodyRead, locals, remote, detailsLen, clock, res>>

\* the upload settles; on success the loop is entered with status '' and
\* pollCount 0
Upload(outs) ==
    /\ pc = "upload_wait"
    /\ inflight' = inflight \ {"upload"}
    /\ \E out \in (IF uploadUrl = "undefined" THEN {"rejected"} ELSE outs),
          n \in BodySizes :
         LET r == ReadUploadResponse(variant, out)
         IN  /\ uploadRes' = out
             /\ IF r.done
                THEN res' = r.res /\ pc' = "done"
                ELSE IF LoopContinues(status, pollCount)
                THEN res' = res /\ pc' = "wait"
                ELSE IF AfterLoop(exportUrl).done
                THEN res' = AfterLoop(exportUrl).res /\ pc' = "done"
                ELSE res' = res /\ pc' = "download"
             /\ detailsLen' = DetailsOf(res', n)
    /\ UNCHANGED <<conc, process, variant, req, env, bodyRead, locals, jobRes, pollRes,
                   compressedRes, okPolls, completedAt, calls, log, clock>>

\* await new Promise(r => setTimeout(r, 3000))
Wait ==
    /\ pc = "wait"
    /\ clock' = clock + PollInterval
    /\ pc' = "poll"
    /\ UNCHANGED <<conc, process, variant, req, env, bodyRead, locals, remote, wire, detailsLen, res>>

\* 3. fetch(`https://api.freeconvert.com/v1/process/jobs/${jobId}`), a GET
IssuePoll ==
    /\ pc = "poll"
    /\ pc' = "poll_wait"
    /\ calls' = [calls EXCEPT !.poll = @ + 1]
    /\ log' = Append(log, Request("poll", "GET", "job"))
    /\ inflight' = inflight \cup {"poll"}
    /\ UNCHANGED <<conc, process, variant, req, env, bodyRead, locals, remote, detailsLen, clock, res>>

\* the poll settles: the rest of the loop body, up to the next test of the
\* loop condition and, when the loop ends, the test of exportUrl
Poll(outs) ==
    /\ pc = "poll_wait"
    /\ inflight' = inflight \ {"poll"}
    /\ \E out \in outs, n \in BodySizes :
         LET r == ReadPollResponse(variant, out)
             q == PollStep(out.job, exportUrl)
         IN  /\ pollRes' = IF out.kind = "throw" THEN "throw"
                            ELSE IF r.done THEN "unparsed" ELSE "parsed"
             /\ IF r.done
                THEN /\ res' = r.res /\ pc' = "done"
                     /\ UNCHANGED <<status, exportUrl, pollCount, pollJob, okPolls,
                                    completedAt>>
                ELSE /\ pollJob' = out.job
                     /\ status' = out.job.status
                     /\ exportUrl' = q.url
                     /\ okPolls' = IF out.job.status \in {"completed", "failed"}
                                   THEN okPolls ELSE okPolls + 1
                     /\ completedAt' = IF out.job.status = "completed" /\ completedAt = 0
                                       THEN calls.poll ELSE completedAt
                     /\ IF q.done
                        THEN res' = q.res /\ pc' = "done" /\ pollCount' = pollCount
                        ELSE /\ pollCount' = pollCount + 1
                             /\ IF LoopContinues(out.job.status, pollCount + 1)
                                THEN res' = res /\ pc' = "wait"
                                ELSE IF AfterLoop(q.url).done
                                THEN res' = AfterLoop(q.url).res /\ pc' = "done"
                                ELSE res' = res /\ pc' = "download"
             /\ detailsLen' = DetailsOf(res', n)
    /\ UNCHANGED <<conc, process, variant, req, env, bodyRead, inputFormat, job, uploadUrl,
                   uploadParams, buffer, formData, compressedBuffer, jobRes,
                   uploadRes, compressedRes, calls, log, clock>>

\* 4. Download the compressed file: fetch(exportUrl), a GET
IssueDownload ==
    /\ pc = "download"
    /\ pc' = "download_wait"
    /\ calls' = [calls EXCEPT !.download = @ + 1]
    /\ log' = Append(log, Request("download", "GET", "exportUrl"))
    /\ inflight' = inflight \cup {"download"}
    /\ UNCHANGED <<conc, process, variant, req, env, bodyRead, locals, remote, detailsLen, clock, res>>

\* the download settles: arrayBuffer(), the data URL, the answer
Download(outs) ==
    /\ pc = "download_wait"
    /\ inflight' = inflight \ {"download"}
    /\ \E out \in outs :
         /\ compressedRes' = out.kind
         /\ compressedBuffer' = IF out.kind \in {"ok", "not_ok"} THEN out.bytes
                                ELSE compressedBuffer
         /\ res' = ReadDownload(variant, out)
         /\ pc' = "done"
    /\ UNCHANGED <<conc, process, variant, req, env, bodyRead, inputFormat, job, uploadUrl,
                   uploadParams, buffer, formData, status, exportUrl, pollCount,
                   pollJob, jobRes, uploadRes, pollRes, okPolls, completedAt,
                   calls, log, detailsLen, clock>>

Next ==
    \/ CheckMethod
    \/ ParseBody
    \/ Validate
    \/ IssueCreate
    \/ CreateJob(CreateOutcomes)
    \/ IssueUpload
    \/ Upload(UploadOutcomes)
    \/ Wait
    \/ IssuePoll
    \/ Poll(PollOutcomes)
    \/ IssueDownload
    \/ Download(DownloadOutcomes)

Spec == Init /\ [][Next]_vars

\* The handler's continuations are run by the event loop and every remote
\* call settles: a step that can be taken is eventually taken
FairSpec == Spec /\ WF_vars(Next)

\* polls that find the job already over
TerminalPollOutcomes ==
    {o \in PollOutcomes : o.body = "job" /\ o.ct = "json"
                           /\ o.job.status \in {"completed", "failed"}}

\* The handler against a job service whose upload forms carry every list of
\* at most MaxParams parameters, and whose jobs are over at the first poll
FormNext ==
    \/ CheckMethod
    \/ ParseBody
    \/ Validate
    \/ IssueCreate
    \/ CreateJob(CreateOutcomesWith(JobShapesWith(ParamLists(MaxParams))))
    \/ IssueUpload
    \/ Upload({"ok", "not_ok"})
    \/ Wait
    \/ IssuePoll
    \/ Poll(TerminalPollOutcomes)
    \/ IssueDownload
    \/ Download(DownloadOutcomesWith({<<>>}))

FormSpec == Init /\ [][FormNext]_vars

\* characters of the enumerated base64 payloads
PayloadChars == {"Q", "/"}

\* A group of four characters that encodes three bytes
FullGroups == {<<a, b, c, d>> : a \in PayloadChars, b \in PayloadChars,
                                c \in PayloadChars, d \in PayloadChars}

\* A last group that encodes two bytes or one: the bits of its last character
\* that belong to no byte are zero, and '=' fills the group
PaddedGroups ==
    {<<a, b, c, "=">> : a \in PayloadChars, b \in PayloadChars,
                        c \in {x \in PayloadChars : B64Value(x) % 4 = 0}}
    \cup {<<a, b, "=", "=">> : a \in PayloadChars,
                               b \in {x \in PayloadChars : B64Value(x) % 16 = 0}}

\* the texts of exactly n full groups
RECURSIVE GroupsOf(_)
GroupsOf(n) ==
    IF n = 0 THEN {<<>>}
    ELSE {t \o g : t \in GroupsOf(n - 1), g \in FullGroups}

\* The valid base64 texts of at most n groups: full groups, of which the last
\* may be a padded one
ValidBase64(n) ==
    UNION {GroupsOf(k) : k \in 0..n}
    \cup UNION {{t \o g : t \in GroupsOf(k - 1), g \in PaddedGroups} : k \in 1..n}

\* the media types of the enumerated data URLs
DataUrlHeaders == {"data:audio/mp3;base64", "data:audio/wav;base64"}

\* A POST of a data URL with a valid base64 payload, to a deployment that
\* has the API key and the form-data package's FormData
RoundTripInit ==
    /\ variant \in Variants
    /\ env = [apiKey |-> TRUE, formData |-> "form-data"]
    /\ \E h \in DataUrlHeaders, t \in ValidBase64(MaxGroups) :
          req = [method |-> "POST", body |-> "parsed",
                 file |-> JsString(<<h, ",">> \o t), fileType |-> JsUndefined]
    /\ Start
    /\ Alone

\* the bytes of the file part of a form
UploadedBytes(form) == form[Len(form)].bytes

\* The handler against a job service that accepts the upload, reports the job
\* completed and serves as the export the very bytes that were uploaded
RoundTripNext ==
    \/ CheckMethod
    \/ ParseBody
    \/ Validate
    \/ IssueCreate
    \/ CreateJob({o \in CreateOutcomes : o.body = "job" /\ o.ct = "json"
                                          /\ o.job.form /\ o.job.url
                                          /\ o.job.parameters})
    \/ IssueUpload
    \/ Upload({"ok"})
    \/ Wait
    \/ IssuePoll
    \/ Poll({o \in TerminalPollOutcomes : o.job.status = "completed"
                                           /\ o.job.tasks = "export_url"})
    \/ IssueDownload
    \/ Download({[kind |-> "ok", bytes |-> UploadedBytes(formData)]})

RoundTripSpec == RoundTripInit /\ [][RoundTripNext]_vars

(* Several invocations side by side.  Each has the handler's locals of its  *)
(* own; the code between two awaits runs without interruption, so a step   *)
(* is the settling of one awaited call and the code up to the next await.  *)

Invocations == 1..MaxInvocations

NoPollOutcome == [kind |-> "none", ct |-> "", body |-> "", job |-> NoPollJob]

\* an invocation at its first statement: its request, its locals, and a
\* record of what the remote did for it (created: the id of the job its create
\* call returned; polled: the job ids its polls addressed; fetched: the jobs
\* whose export it downloaded; the outcomes of its own calls)
Fresh(r) ==
    [req |-> r, pc |-> "start", jobId |-> 0, status |-> "", exportUrl |-> "",
     exportOf |-> 0, pollCount |-> 0, polling |-> 0, res |-> NoResponse,
     created |-> 0, polled |-> {}, fetched |-> {},
     uploadOut |-> "none", pollOut |-> NoPollOutcome, downloadOut |-> "none"]

\* requests with and without a file
ConcRequests ==
    {r \in Requests : /\ r.method = "POST" /\ r.body = "parsed"
                      /\ r.fileType = JsUndefined
                      /\ r.file \in {JsUndefined, JsString(<<"x", ",">>)}}

\* a handler that keeps the job id in a variable of the module: every poll
\* addresses the job created last
PollTarget_Shared(v, latest) == latest

\* let jobId = job.id, a local of the invocation, in the poll's URL
PollTarget(v, latest) == v.jobId

\* what the remote answers to a poll: a failure of the transport, or the
\* state of the job
ConcPollOutcomes(v) ==
    {o \in PollOutcomes :
        \/ o.kind = "throw"
        \/ /\ o.ct = "json" /\ o.body = "job"
           /\ \/ o.job.status = "failed" /\ o.job.tasks = "undefined"
              \/ o.job.status = "completed"
                 /\ o.job.tasks \in {"export_url", "export_no_result"}
              \/ o.job.status = "processing" /\ o.job.tasks = "undefined"
                 /\ v.pollCount < MaxPending}

ConcInit ==
    /\ variant \in Variants
    /\ env = [apiKey |-> TRUE, formData |-> "form-data"]
    /\ req = [method |-> "POST", body |-> "parsed", file |-> JsUndefined,
              fileType |-> JsUndefined]
    /\ Start
    /\ invs \in [Invocations -> {Fresh(r) : r \in ConcRequests}]
    /\ jobs = 0

single == <<variant, req, env, pc, bodyRead, locals, remote, wire, detailsLen,
            clock, res, process>>

\* invocation i answers r
Answer(i, r) == [invs[i] EXCEPT !.pc = "done", !.res = r]

\* from the first statement to the create call's fetch
ConcBegin(i) ==
    /\ invs[i].pc = "start"
    /\ LET v == invs[i]
       IN  invs' = [invs EXCEPT ![i] =
               IF v.req.method # "POST" THEN Answer(i, MethodNotAllowed)
               ELSE IF v.req.body = "stream_garbage" THEN Answer(i, OuterCatch(JsonError))
               ELSE IF Falsy(v.req.file) THEN Answer(i, NoFileProvided)
               ELSE IF MissingKey(env) THEN Answer(i, MissingApiKey)
               ELSE IF InputFormatOf(v.req.fileType).threw
               THEN Answer(i, OuterCatch(SplitError))
               ELSE [v EXCEPT !.pc = "create_wait"]]
    /\ UNCHANGED <<jobs, single>>

\* the create call settles with a new job; up to the upload's fetch
ConcCreated(i) ==
    /\ invs[i].pc = "create_wait"
    /\ jobs' = jobs + 1
    /\ LET v == invs[i]
           d == DecodePayload(v.req.file)
           b == BuildForm(env.formData)
       IN  invs' = [invs EXCEPT ![i] =
               IF d.threw THEN [Answer(i, OuterCatch(d.msg)) EXCEPT !.created = jobs + 1]
               ELSE IF b.threw
               THEN [Answer(i, OuterCatch(b.msg)) EXCEPT !.created = jobs + 1]
               ELSE [v EXCEPT !.pc = "upload_wait", !.created = jobs + 1,
                              !.jobId = jobs + 1]]
    /\ UNCHANGED single

\* the upload settles; up to the first timer of the loop
ConcUploaded(i) ==
    /\ invs[i].pc = "upload_wait"
    /\ \E out \in {"ok", "not_ok"} :
         LET v == invs[i]
             r == ReadUploadResponse(variant, out)
         IN  invs' = [invs EXCEPT ![i] =
                 IF r.done THEN [Answer(i, r.res) EXCEPT !.uploadOut = out]
                 ELSE IF LoopContinues(v.status, v.pollCount)
                 THEN [v EXCEPT !.pc = "timer", !.uploadOut = out]
                 ELSE [Answer(i, AfterLoop(v.exportUrl).res) EXCEPT !.uploadOut = out]]
    /\ UNCHANGED <<jobs, single>>

\* the timer fires; the poll's fetch
ConcTimer(i) ==
    /\ invs[i].pc = "timer"
    /\ LET v == invs[i]
           t == PollTarget(v, jobs)
       IN  invs' = [invs EXCEPT ![i] =
               [v EXCEPT !.pc = "poll_wait", !.polling = t, !.polled = @ \cup {t}]]
    /\ UNCHANGED <<jobs, single>>

\* the poll settles with the state of the job it addressed; up to the next
\* timer, the download's fetch, or an answer
ConcPolled(i) ==
    /\ invs[i].pc = "poll_wait"
    /\ \E out \in ConcPollOutcomes(invs[i]) :
         LET v == invs[i]
             r == ReadPollResponse(variant, out)
             q == PollStep(out.job, v.exportUrl)
             e == IF q.url = "url" THEN v.polling ELSE v.exportOf
             w == [v EXCEPT !.pollOut = out]
         IN  invs' = [invs EXCEPT ![i] =
                 IF r.done THEN [w EXCEPT !.pc = "done", !.res = r.res]
                 ELSE IF q.done
                 THEN [w EXCEPT !.pc = "done", !.res = q.res,
                                !.status = out.job.status]
                 ELSE IF LoopContinues(out.job.status, v.pollCount + 1)
                 THEN [w EXCEPT !.pc = "timer", !.status = out.job.status,
                                !.exportUrl = q.url, !.exportOf = e,
                                !.pollCount = @ + 1]
                 ELSE IF AfterLoop(q.url).done
                 THEN [w EXCEPT !.pc = "done", !.res = AfterLoop(q.url).res,
                                !.status = out.job.status, !.exportUrl = q.url,
                                !.exportOf = e, !.pollCount = @ + 1]
                 ELSE [w EXCEPT !.pc = "download_wait", !.status = out.job.status,
                                !.exportUrl = q.url, !.exportOf = e,
                                !.pollCount = @ + 1, !.fetched = @ \cup {e}]]
    /\ UNCHANGED <<jobs, single>>

\* the export of job k, as the remote serves it
ExportBytes(k) == <<k>>

\* the download settles; the answer
ConcDownloaded(i) ==
    /\ invs[i].pc = "download_wait"
    /\ \E k \in {"ok", "throw"} :
         LET v == invs[i]
             out == [kind |-> k,
                     bytes |-> IF k = "ok" THEN ExportBytes(v.exportOf) ELSE <<>>]
         IN  invs' = [invs EXCEPT ![i] =
                 [v EXCEPT !.pc = "done", !.res = ReadDownload(variant, out),
                           !.downloadOut = k]]
    /\ UNCHANGED <<jobs, single>>

ConcNext ==
    \/ \E i \in Invocations : ConcBegin(i)
    \/ \E i \in Invocations : ConcCreated(i)
    \/ \E i \in Invocations : ConcUploaded(i)
    \/ \E i \in Invocations : ConcTimer(i)
    \/ \E i \in Invocations : ConcPolled(i)
    \/ \E i \in Invocations : ConcDownloaded(i)

ConcSpec == ConcInit /\ [][ConcNext]_vars

(* The two variants side by side, given the same request and, call by call, *)
(* the same remote responses.                                              *)

\* a variant at its first statement: its locals that steer the calls, its
\* answer, and the calls it has made
Twin == [pc |-> "start", status |-> "", exportUrl |-> "", pollCount |-> 0,
         res |-> NoResponse, log |-> <<>>]

\* the variant answers r
TwinAnswer(t, r) == [t EXCEPT !.pc = "done", !.res = r]

\* the variant makes the call c and awaits it
TwinCall(t, c) == [t EXCEPT !.pc = c, !.log = Append(@, c)]

\* lines 4-61, the same text in both variants: the first check that the
\* request fails, or the create call
TwinBegin(t, r, e) ==
    IF r.method # "POST" THEN TwinAnswer(t, MethodNotAllowed)
    ELSE IF r.body = "stream_garbage" THEN TwinAnswer(t, OuterCatch(JsonError))
    ELSE IF Falsy(r.file) THEN TwinAnswer(t, NoFileProvided)
    ELSE IF MissingKey(e) THEN TwinAnswer(t, MissingApiKey)
    ELSE IF InputFormatOf(r.fileType).threw THEN TwinAnswer(t, OuterCatch(SplitError))
    ELSE TwinCall(t, "create")

\* the create call settles with out: up to the upload's fetch
TwinCreated(v, t, r, e, out) ==
    LET j == ReadJobResponse(v, out)
        d == DecodePayload(r.file)
        b == BuildForm(e.formData)
    IN  IF j.done THEN TwinAnswer(t, j.res)
        ELSE IF ~HasUploadForm(out.job) THEN TwinAnswer(t, CreateFailed("job"))
        ELSE IF d.threw THEN TwinAnswer(t, OuterCatch(d.msg))
        ELSE IF b.threw THEN TwinAnswer(t, OuterCatch(b.msg))
        ELSE IF ~out.job.url THEN TwinAnswer(t, ReadUploadResponse(v, "rejected").res)
        ELSE TwinCall(t, "upload")

\* after a pass of the loop, or before the first: the next poll, the
\* download, or the answer that there is no export URL
TwinLoop(t) ==
    IF LoopContinues(t.status, t.pollCount) THEN TwinCall(t, "poll")
    ELSE IF AfterLoop(t.exportUrl).done THEN TwinAnswer(t, AfterLoop(t.exportUrl).res)
    ELSE TwinCall(t, "download")

\* the upload settles with out
TwinUploaded(v, t, out) ==
    LET u == ReadUploadResponse(v, out)
    IN  IF u.done THEN TwinAnswer(t, u.res) ELSE TwinLoop(t)

\* a poll settles with out
TwinPolled(v, t, out) ==
    LET p == ReadPollResponse(v, out)
        q == PollStep(out.job, t.exportUrl)
    IN  IF p.done THEN TwinAnswer(t, p.res)
        ELSE IF q.done THEN TwinAnswer([t EXCEPT !.status = out.job.status], q.res)
        ELSE TwinLoop([t EXCEPT !.status = out.job.status, !.exportUrl = q.url,
                                !.pollCount = @ + 1])

\* the download settles with out
TwinDownloaded(v, t, out) == TwinAnswer(t, ReadDownload(v, out))

\* remote responses whose JSON bodies are labelled application/json
Labelled(outs) == {o \in outs : o.body \in {"job", "null"} => o.ct = "json"}

EquivInit ==
    /\ variant = "basic"
    /\ req \in Requests
    /\ env \in [apiKey : BOOLEAN, formData : FormDataKinds]
    /\ Start
    /\ invs = [v \in Variants |-> Twin]
    /\ jobs = 0

\* the variants that await the call c
Awaiting(c) == {v \in Variants : invs[v].pc = c}

EquivBegin ==
    /\ Awaiting("start") # {}
    /\ invs' = [v \in Variants |->
                  IF invs[v].pc = "start" THEN TwinBegin(invs[v], req, env) ELSE invs[v]]
    /\ UNCHANGED <<jobs, single>>

EquivCreated ==
    /\ Awaiting("create") # {}
    /\ \E out \in Labelled(CreateOutcomes) :
         invs' = [v \in Variants |->
                    IF invs[v].pc = "create"
                    THEN TwinCreated(v, invs[v], req, env, out) ELSE invs[v]]
    /\ UNCHANGED <<jobs, single>>

EquivUploaded ==
    /\ Awaiting("upload") # {}
    /\ \E out \in UploadOutcomes :
         invs' = [v \in Variants |->
                    IF invs[v].pc = "upload"
                    THEN TwinUploaded(v, invs[v], out) ELSE invs[v]]
    /\ UNCHANGED <<jobs, single>>

EquivPolled ==
    /\ Awaiting("poll") # {}
    /\ \E out \in Labelled(PollOutcomes) :
         invs' = [v \in Variants |->
                    IF invs[v].pc = "poll"
                    THEN TwinPolled(v, invs[v], out) ELSE invs[v]]
    /\ UNCHANGED <<jobs, single>>

EquivDownloaded ==
    /\ Awaiting("download") # {}
    /\ \E out \in DownloadOutcomes :
         invs' = [v \in Variants |->
                    IF invs[v].pc = "download"
                    THEN TwinDownloaded(v, invs[v], out) ELSE invs[v]]
    /\ UNCHANGED <<jobs, single>>

EquivNext ==
    \/ EquivBegin
    \/ EquivCreated
    \/ EquivUploaded
    \/ EquivPolled
    \/ EquivDownloaded

EquivSpec == EquivInit /\ [][EquivNext]_vars

-----------------------------------------------------------------------------
(* The process handlers as a state machine: one invocation of one handler. *)
(* at is the position of the handler; outbound is the log of the requests  *)
(* it has made, each with what came back.                                  *)

compress == <<variant, req, env, pc, bodyRead, locals, remote, wire, detailsLen,
              clock, res>>

\* no compress handler runs
NoCompress ==
    /\ variant = "basic"
    /\ req = [method |-> "GET", body |-> "parsed", file |-> JsUndefined,
              fileType |-> JsUndefined]
    /\ env = [apiKey |-> FALSE, formData |-> "absent"]
    /\ pc = "none"
    /\ Blank
    /\ Alone

ProcInit ==
    /\ handler \in ProcessHandlers
    /\ request \in ProcessRequests(handler)
    /\ settings \in [hfToken : BOOLEAN,
                      globals : IF handler = "probing" THEN BOOLEAN ELSE {TRUE}]
    /\ at = IF handler = "express" THEN "validate" ELSE "start"
    /\ streamRead = FALSE
    /\ outbound = <<>>
    /\ awaited = {}
    /\ endpoint = 0
    /\ failure = ""
    /\ apiResponse = NoApiResponse
    /\ answer = NoAnswer
    /\ NoCompress

Pending == [kind |-> "pending", ok |-> FALSE, ct |-> "", body |-> ""]

\* what came back, as the log keeps it
Came(out) == [kind |-> out.kind, ok |-> out.ok, ct |-> out.ct, body |-> out.body]

\* an outbound request of a process handler
Outbound(call, method, target, format) ==
    [call |-> call, method |-> method, target |-> target, format |-> format,
     came |-> Pending]

\* the request is sent and the handler awaits it
Send(r, next) ==
    /\ outbound' = Append(outbound, r)
    /\ awaited' = {r.call}
    /\ at' = next

\* the awaited request settles with out
Settle(out) ==
    /\ awaited' = {}
    /\ outbound' = [outbound EXCEPT ![Len(outbound)].came = Came(out)]

\* the handler answers and returns
Reply(a) == answer' = a /\ at' = "done"

\* a handler that goes on to read the body whatever the method
ProcessCheckMethod_NotTested ==
    /\ at = "start"
    /\ at' = "parse"
    /\ UNCHANGED <<compress, conc, handler, request, settings, streamRead, outbound,
                   awaited, endpoint, failure, apiResponse, answer>>

\* if (req.method !== "POST") return res.status(405).json(...)
ProcessCheckMethod ==
    /\ at = "start"
    /\ IF request.method # "POST"
       THEN Reply(ErrorAnswer(405, "Method not allowed"))
       ELSE at' = "parse" /\ answer' = answer
    /\ UNCHANGED <<compress, conc, handler, request, settings, streamRead, outbound,
                   awaited, endpoint, failure, apiResponse>>

\* if (!req.body || typeof req.body === "string") the stream is read and
\* parsed; a rejection goes to the outer catch
ProcessParseBody ==
    /\ at = "parse"
    /\ streamRead' = (request.body # "parsed")
    /\ IF request.body = "stream_garbage"
       THEN Reply(ErrorAnswer(500, JsonError))
       ELSE at' = "validate" /\ answer' = answer
    /\ UNCHANGED <<compress, conc, handler, request, settings, outbound, awaited,
                   endpoint, failure, apiResponse>>

\* where the call chain of handler h begins
FirstCall(h) ==
    CASE h = "client" -> "info"
      [] h = "probing" -> "probe"
      [] OTHER -> "primary"

\* the message of the rejection for want of HF_TOKEN
TokenMessage(h) == IF h = "express" THEN MissingTokenHint ELSE MissingToken

\* a validation that decodes the payload before it looks for HF_TOKEN
Rejection_DecodeFirst(h, file, s) ==
    IF Falsy(file) THEN ErrorAnswer(400, "No file provided")
    ELSE IF DecodeFails(file) THEN ErrorAnswer(400, InvalidEncoding)
    ELSE IF ~s.hfToken THEN ErrorAnswer(500, TokenMessage(h))
    ELSE NoAnswer

\* if (!file) 400; if (!process.env.HF_TOKEN) 500; the decoding in its try,
\* 400 when it throws; NoAnswer when the request passes
Rejection(h, file, s) ==
    IF Falsy(file) THEN ErrorAnswer(400, "No file provided")
    ELSE IF ~s.hfToken THEN ErrorAnswer(500, TokenMessage(h))
    ELSE IF DecodeFails(file) THEN ErrorAnswer(400, InvalidEncoding)
    ELSE NoAnswer

ProcessValidate ==
    /\ at = "validate"
    /\ IF Rejection(handler, request.file, settings) # NoAnswer
       THEN Reply(Rejection(handler, request.file, settings)) /\ endpoint' = endpoint
       ELSE /\ at' = FirstCall(handler)
            /\ endpoint' = IF handler = "probing" THEN 1 ELSE endpoint
            /\ answer' = answer
    /\ UNCHANGED <<compress, conc, handler, request, settings, streamRead, outbound,
                   awaited, failure, apiResponse>>

(* the client handler *)

\* fetch("https://CleanSong-Lyric-Cleaner.hf.space/api/", { method: "GET" })
IssueInfo ==
    /\ at = "info"
    /\ Send(Outbound("info", "GET", "/api/", "none"), "info_wait")
    /\ UNCHANGED <<compress, conc, handler, request, settings, streamRead, endpoint,
                   failure, apiResponse, answer>>

\* whatever comes back is logged, an error included
Info(outs) ==
    /\ at = "info_wait"
    /\ \E out \in outs :
          /\ Settle(out)
          /\ at' = "connect"
    /\ UNCHANGED <<compress, conc, handler, request, settings, streamRead, endpoint,
                   failure, apiResponse, answer>>

\* await Client.connect("CleanSong/Lyric-Cleaner")
IssueConnect ==
    /\ at = "connect"
    /\ Send(Outbound("connect", "GET", "CleanSong/Lyric-Cleaner", "none"), "connect_wait")
    /\ UNCHANGED <<compress, conc, handler, request, settings, streamRead, endpoint,
                   failure, apiResponse, answer>>

\* a failure answered with the status 500
FailureAnswer_ServerError(msg) == ErrorAnswer(500, msg)

\* the catch around the call chain: the fallback body with error: e.message
FailureAnswer(msg) == Fallback(msg)

Connect(outs) ==
    /\ at = "connect_wait"
    /\ \E out \in outs :
          /\ Settle(out)
          /\ IF out.kind = "throw"
             THEN /\ Reply(FailureAnswer(ClientFailed))
                  /\ failure' = ClientFailed
             ELSE /\ at' = "predict"
                  /\ UNCHANGED <<answer, failure>>
    /\ UNCHANGED <<compress, conc, handler, request, settings, streamRead, endpoint,
                   apiResponse>>

\* await app.predict("/process_song", { audio_path: audioFile })
IssuePredict ==
    /\ at = "predict"
    /\ Send(Outbound("predict", "POST", "/process_song", "json"), "predict_wait")
    /\ UNCHANGED <<compress, conc, handler, request, settings, streamRead, endpoint,
                   failure, apiResponse, answer>>

\* apiResponse = result.data, or the catch
Predict(outs) ==
    /\ at = "predict_wait"
    /\ \E out \in outs :
          /\ Settle(out)
          /\ IF out.kind = "throw"
             THEN /\ Reply(FailureAnswer(ClientFailed))
                  /\ failure' = ClientFailed
                  /\ apiResponse' = apiResponse
             ELSE /\ at' = "map"
                  /\ apiResponse' = out.R
                  /\ UNCHANGED <<answer, failure>>
    /\ UNCHANGED <<compress, conc, handler, request, settings, streamRead, endpoint>>

(* the probing handler *)

\* One turn of the loop over possibleEndpoints: the form is built and the
\* request sent; where FormData or Blob is not defined every turn throws
\* into its catch, and the loop ends without a request
IssueProbe ==
    /\ at = "probe"
    /\ IF settings.globals
       THEN /\ Send(Outbound("probe", "POST", PossibleEndpoints[endpoint], "multipart"),
                    "probe_wait")
            /\ endpoint' = endpoint
       ELSE /\ at' = "json"
            /\ endpoint' = Len(PossibleEndpoints) + 1
            /\ UNCHANGED <<outbound, awaited>>
    /\ UNCHANGED <<compress, conc, handler, request, settings, streamRead, failure,
                   apiResponse, answer>>

\* const result = await response.json() after the chain, inside the try
ReadResult(out) ==
    LET r == ReadJson(out)
    IN  IF r.failed
        THEN /\ Reply(FailureAnswer(r.msg))
             /\ failure' = r.msg
             /\ apiResponse' = apiResponse
        ELSE /\ at' = "map"
             /\ apiResponse' = r.R
             /\ UNCHANGED <<answer, failure>>

\* if (response.ok) break; else the text is read and the loop goes on; an
\* error is caught and the loop goes on
Probe(outs) ==
    /\ at = "probe_wait"
    /\ \E out \in outs :
          /\ Settle(out)
          /\ IF ProbeSucceeded(out)
             THEN ReadResult(out) /\ endpoint' = endpoint
             ELSE /\ endpoint' = endpoint + 1
                  /\ at' = IF endpoint < Len(PossibleEndpoints) THEN "probe" ELSE "json"
                  /\ UNCHANGED <<answer, failure, apiResponse>>
    /\ UNCHANGED <<compress, conc, handler, request, settings, streamRead>>

\* if (!workingEndpoint) fetch(".../api/predict/", JSON { data: [audioDataUrl] })
IssueJson ==
    /\ at = "json"
    /\ Send(Outbound("json", "POST", "/api/predict/", "json"), "json_wait")
    /\ UNCHANGED <<compress, conc, handler, request, settings, streamRead, endpoint,
                   failure, apiResponse, answer>>

\* jsonResponse.ok, or "All CleanSong endpoints and formats failed"
JsonFormat(outs) ==
    /\ at = "json_wait"
    /\ \E out \in outs :
          /\ Settle(out)
          /\ IF out.kind = "response" /\ out.ok
             THEN ReadResult(out)
             ELSE /\ Reply(FailureAnswer(AllFailed))
                  /\ failure' = AllFailed
                  /\ apiResponse' = apiResponse
    /\ UNCHANGED <<compress, conc, handler, request, settings, streamRead, endpoint>>

(* the alternative and express handlers *)

\* fetch(".../api/predict/", JSON { data: [audioDataUrl] })
IssuePrimary ==
    /\ at = "primary"
    /\ Send(Outbound("primary", "POST", "/api/predict/", "json"), "primary_wait")
    /\ UNCHANGED <<compress, conc, handler, request, settings, streamRead, endpoint,
                   failure, apiResponse, answer>>

\* the primary try: apiResponse, or the catch (e) that tries the alternative
Primary(outs) ==
    /\ at = "primary_wait"
    /\ \E out \in outs :
          LET r == PrimaryResult(out)
          IN  /\ Settle(out)
              /\ IF r.failed
                 THEN /\ at' = "alternative"
                      /\ failure' = r.msg
                      /\ apiResponse' = apiResponse
                 ELSE /\ at' = "map"
                      /\ apiResponse' = r.R
                      /\ failure' = failure
    /\ UNCHANGED <<compress, conc, handler, request, settings, streamRead, endpoint,
                   answer>>

\* fetch(".../run/predict", JSON)
IssueAlternative ==
    /\ at = "alternative"
    /\ Send(Outbound("alternative", "POST", "/run/predict", "json"), "alternative_wait")
    /\ UNCHANGED <<compress, conc, handler, request, settings, streamRead, endpoint,
                   failure, apiResponse, answer>>

\* apiResponse = altResult, or the catch (altError) with the fallback body
Alternative(outs) ==
    /\ at = "alternative_wait"
    /\ \E out \in outs :
          LET r == AlternativeResult(out)
          IN  /\ Settle(out)
              /\ IF r.failed
                 THEN /\ Reply(Fallback(FallbackError(failure, r.msg)))
                      /\ apiResponse' = apiResponse
                 ELSE /\ at' = "map"
                      /\ apiResponse' = r.R
                      /\ answer' = answer
    /\ UNCHANGED <<compress, conc, handler, request, settings, streamRead, endpoint,
                   failure>>

\* the mapping of apiResponse to the response, in its try
Respond ==
    /\ at = "map"
    /\ Reply(ReadApiResponse(handler, apiResponse))
    /\ UNCHANGED <<compress, conc, handler, request, settings, streamRead, outbound,
                   awaited, endpoint, failure, apiResponse>>

ProcNext ==
    \/ ProcessCheckMethod
    \/ ProcessParseBody
    \/ ProcessValidate
    \/ IssueInfo
    \/ Info(InfoOutcomes)
    \/ IssueConnect
    \/ Connect(ConnectOutcomes)
    \/ IssuePredict
    \/ Predict(PredictOutcomes)
    \/ IssueProbe
    \/ Probe(ProbeOutcomes)
    \/ IssueJson
    \/ JsonFormat(ProbeOutcomes)
    \/ IssuePrimary
    \/ Primary(InferenceOutcomes)
    \/ IssueAlternative
    \/ Alternative(ProbeOutcomes)
    \/ Respond

ProcSpec == ProcInit /\ [][ProcNext]_vars

\* every serverless handler of the repository: the two compress variants and
\* the three process handlers
ServerlessInit == Init \/ (ProcInit /\ handler \in ServerlessHandlers)

ServerlessNext ==
    \/ CheckMethod
    \/ ParseBody
    \/ Validate
    \/ IssueCreate
    \/ CreateJob(CreateOutcomes)
    \/ IssueUpload
    \/ Upload(UploadOutcomes)
    \/ Wait
    \/ IssuePoll
    \/ Poll(PollOutcomes)
    \/ IssueDownload
    \/ Download(DownloadOutcomes)
    \/ ProcessCheckMethod
    \/ ProcessParseBody
    \/ ProcessValidate
    \/ IssueInfo
    \/ Info(InfoOutcomes)
    \/ IssueConnect
    \/ Connect(ConnectOutcomes)
    \/ IssuePredict
    \/ Predict(PredictOutcomes)
    \/ IssueProbe
    \/ Probe(ProbeOutcomes)
    \/ IssueJson
    \/ JsonFormat(ProbeOutcomes)
    \/ IssuePrimary
    \/ Primary(InferenceOutcomes)
    \/ IssueAlternative
    \/ Alternative(ProbeOutcomes)
    \/ Respond

ServerlessSpec == ServerlessInit /\ [][ServerlessNext]_vars

-----------------------------------------------------------------------------
(* Properties *)

Done == pc = "done"

NoCalls == calls = NoCallsYet

\* the last poll was parsed and every poll so far reported a status that is
\* neither completed nor failed
OnlyPending == calls.poll > 0 /\ pollRes = "parsed" /\ okPolls = calls.poll

\* the last poll was parsed and reported completed with an export URL
CompletedWithUrl ==
    /\ pollRes = "parsed"
    /\ pollJob.status = "completed"
    /\ pollJob.tasks = "export_url"

\* the download came back with a response whose body could be read
Downloaded == compressedRes \in {"ok", "not_ok"}

\* C1: when polls 1..N-1 report a non-terminal status and poll N (N <= 30)
\* reports completed with an export URL, the handler makes exactly N polls
\* (it neither gives up before poll N nor polls again after it), then exactly
\* one download, and answers 200 once the download has returned.
C1_PollsUntilCompleted ==
    /\ CompletedWithUrl =>
          /\ pc \in {"download", "download_wait", "done"}
          /\ completedAt = okPolls + 1
          /\ completedAt <= MaxPolls
          /\ calls.poll = completedAt
          /\ pc = "download" => calls.download = 0
          /\ pc # "download" => calls.download = 1
          /\ (Done /\ Downloaded) => res = Success(compressedBuffer)
    /\ (Done /\ OnlyPending) => calls.poll = MaxPolls

\* poll 30 completed with an export URL and the handler answered 200
C1_Witness ==
    /\ Done /\ CompletedWithUrl /\ completedAt = MaxPolls
    /\ calls.poll = MaxPolls /\ calls.download = 1 /\ res = Success(compressedBuffer)

\* C2: when every poll reports a status that is neither completed nor
\* failed, the handler makes exactly 30 polls, each after a wait of 3 time
\* units (90 in all), makes no download and fails with a poll-timeout error:
\* an error response that is not the one of the no-export-URL failure.
C2_TimeoutIsPollTimeoutError ==
    (Done /\ OnlyPending) =>
        /\ calls.poll = MaxPolls
        /\ clock = MaxPolls * PollInterval
        /\ calls.download = 0
        /\ res.code = 500
        /\ res # NoExportUrl

\* The part of C2 that the code does meet: the budget of polls and of time,
\* one wait before each poll, no download, an HTTP 500.
C2_Budget ==
    /\ clock = PollInterval * (calls.poll + (IF pc = "poll" THEN 1 ELSE 0))
    /\ calls.poll <= MaxPolls
    /\ (Done /\ OnlyPending) =>
          /\ calls.poll = MaxPolls
          /\ clock = MaxPolls * PollInterval
          /\ calls.download = 0
          /\ res.code = 500

\* C3: as soon as a poll reports failed, the invocation is over with
\* HTTP 500 'Compression failed' carrying the polled job: there is no
\* further poll (every earlier poll was non-terminal) and no download.
C3_FailedIsTerminal ==
    (pollRes = "parsed" /\ pollJob.status = "failed") =>
        /\ Done
        /\ res = CompressionFailed("pollJob")
        /\ calls.poll = okPolls + 1
        /\ calls.download = 0

\* poll 2 reported failed
C3_Witness ==
    /\ pollRes = "parsed" /\ pollJob.status = "failed"
    /\ calls.poll = 2 /\ Done /\ res = CompressionFailed("pollJob")

\* C4: when the parsed create response lacks the upload URL or the form
\* parameters, no upload, poll or download is made and the invocation ends
\* with the job-creation error (for a payload that decodes and a form that
\* can be built, so that nothing else is wrong).
C4_NoUploadTargetNoUpload ==
    (jobRes = "parsed" /\ ~(job.form /\ job.url /\ job.parameters)
        /\ ~DecodePayload(req.file).threw /\ ~BuildForm(env.formData).threw) =>
        /\ calls.upload = 0 /\ calls.poll = 0 /\ calls.download = 0
        /\ Done => res = CreateFailed("job")

\* The part of C4 that the code does meet: a create response without the
\* form object ends the invocation with the job-creation error.
C4_NoFormNoUpload ==
    (jobRes = "parsed" /\ ~job.form) =>
        /\ Done
        /\ res = CreateFailed("job")
        /\ calls.upload = 0 /\ calls.poll = 0 /\ calls.download = 0

\* C5 as stated: without the API key the invocation ends with HTTP 500 and
\* makes no outbound request.
C5_NoKeyIs500 ==
    ~env.apiKey => (NoCalls /\ (Done => res.code = 500))

\* what the handler answers before it looks at the API key
EarlierRejection ==
    IF req.method # "POST" THEN MethodNotAllowed
    ELSE IF req.body = "stream_garbage" THEN OuterCatch(JsonError)
    ELSE IF Falsy(req.file) THEN NoFileProvided
    ELSE NoResponse

\* C5 (amended): without the API key no outbound request is made at any
\* point; a POST request whose body parses and holds a file ends with
\* HTTP 500 'Missing FREECONVERT_API_KEY env variable', and any other
\* request ends with its earlier rejection (405, 500 on a body that does
\* not parse, 400 on a missing file).
C5_NoKeyNoCalls ==
    ~env.apiKey =>
        /\ NoCalls
        /\ Done => res = (IF EarlierRejection # NoResponse THEN EarlierRejection
                          ELSE MissingApiKey)

\* a POST with a file, without the key, answered 500
C5_Witness ==
    /\ Done /\ ~env.apiKey /\ req.method = "POST" /\ ~Falsy(req.file)
    /\ res = MissingApiKey /\ NoCalls

\* the file payload is not a string, or a string without a comma
Malformed(file) ==
    ~Falsy(file) /\ (file.type # "string" \/ IndexFrom(file.chars, ",", 1) = 0)

\* C6: a POST request whose file payload is missing or malformed is answered
\* 400 (here with the API key set, the fileType well formed and a job
\* creation that returned an upload form, so that nothing else is wrong).
C6_BadFileIs400 ==
    (/\ Done
     /\ req.method = "POST" /\ req.body # "stream_garbage"
     /\ Falsy(req.file) \/ Malformed(req.file)
     /\ env.apiKey /\ ~InputFormatOf(req.fileType).threw
     /\ Falsy(req.file) \/ (jobRes = "parsed" /\ HasUploadForm(job)))
    => res.code = 400

\* C7: when a poll reports completed and no export URL is found in the
\* polled job, the invocation is over with the no-export-URL error and
\* without a download.
C7_CompletedNoUrl ==
    (pollRes = "parsed" /\ pollJob.status = "completed"
        /\ pollJob.tasks # "export_url") =>
        /\ Done
        /\ res = NoExportUrl
        /\ calls.download = 0

\* The part of C7 that the code does meet: the same with a task list present.
C7_CompletedNoUrlWithTasks ==
    (pollRes = "parsed" /\ pollJob.status = "completed"
        /\ pollJob.tasks \notin {"export_url", "undefined"}) =>
        /\ Done
        /\ res = NoExportUrl
        /\ calls.download = 0

\* C8: when the upload comes back with a non-success HTTP status, the
\* invocation is over with HTTP 500 and no poll or download; the response is
\* 'Failed to upload file to FreeConvert' with the text of the upload
\* response (the text having arrived).
C8_UploadRejected ==
    /\ uploadRes \in {"not_ok", "not_ok_unreadable"} =>
          /\ Done
          /\ res.code = 500
          /\ calls.upload = 1 /\ calls.poll = 0 /\ calls.download = 0
    /\ uploadRes = "not_ok" => res = UploadFailed("text")

\* the upload was answered with a non-success status
C8_Witness ==
    /\ uploadRes = "not_ok" /\ Done /\ res = UploadFailed("text")
    /\ calls.create = 1 /\ calls.upload = 1

\* C9: when the download fails at transport level the response is a
\* download-specific HTTP 500: it is not the response that the failure of
\* another step also gets.
C9_DownloadErrorIsSpecific ==
    (Done /\ compressedRes = "throw") =>
        /\ res.code = 500
        /\ res # OuterCatch(NetworkError)

\* the response OuterCatch(NetworkError) is also the answer to a failed
\* create call: in no state is it the answer of the basic handler to
\* anything but a transport failure of some step
C9_SameAsCreateFailure ==
    (Done /\ variant = "basic" /\ jobRes = "throw") => res = OuterCatch(NetworkError)

\* the poll budget is used up without a terminal status
TimedOut == Done /\ OnlyPending /\ calls.poll = MaxPolls

\* C10: the responses of the three poll-phase failures differ pairwise: a
\* remote failure is answered 'Compression failed', completed without an
\* export URL is answered 'No export URL found', and a timeout is answered
\* by neither of these.
C10_PollFailuresDiffer ==
    /\ (Done /\ pollRes = "parsed" /\ pollJob.status = "failed")
          => res = CompressionFailed("pollJob")
    /\ (Done /\ pollRes = "parsed" /\ pollJob.status = "completed"
          /\ pollJob.tasks \notin {"export_url", "undefined"})
          => res = NoExportUrl
    /\ TimedOut => res \notin {CompressionFailed("pollJob"), NoExportUrl}

\* the outbound HTTP requests made so far
TotalCalls == calls.create + calls.upload + calls.poll + calls.download

\* C11 (as written): an invocation makes between two and thirty-two
\* outbound HTTP calls in total.
C11_BetweenTwoAndThirtyTwo ==
    Done => (2 <= TotalCalls /\ TotalCalls <= 32)

\* C11 (amended): an invocation makes at most 1 create, 1 upload, 30 polls
\* and 1 download, between zero and thirty-three calls in all; one that
\* answers 200 made the create, the upload, between 1 and 30 polls and the
\* download, between four and thirty-three calls.
C11_CallBudget ==
    /\ calls.create <= 1 /\ calls.upload <= 1
    /\ calls.poll <= MaxPolls /\ calls.download <= 1
    /\ TotalCalls <= MaxPolls + 3
    /\ TotalCalls = Len(log)
    /\ (Done /\ res.code = 200) =>
          /\ calls.create = 1 /\ calls.upload = 1 /\ calls.download = 1
          /\ calls.poll >= 1
          /\ TotalCalls >= 4

\* an invocation that made all thirty-three calls and answered 200
C11_Witness == Done /\ res.code = 200 /\ TotalCalls = MaxPolls + 3

\* the create call threw, its body was not a job, or the job has no upload form
CreateFailure == jobRes \in {"throw", "unparsed"} \/ (jobRes = "parsed" /\ ~job.form)

\* the upload threw or was answered with a status that is not ok
UploadFailure == uploadRes \in {"throw", "not_ok", "not_ok_unreadable"}

\* the download threw or its body could not be read
DownloadFailure == compressedRes \in {"throw", "unreadable"}

\* C12: create, upload and download are each attempted at most once and the
\* polls number at most 30; once the create, the upload or the download has
\* failed, no request of any step is made again.
C12_NoRetry ==
    /\ [](/\ calls.create <= 1 /\ calls.upload <= 1 /\ calls.download <= 1
          /\ calls.poll <= MaxPolls)
    /\ [][(CreateFailure \/ UploadFailure \/ DownloadFailure)
             => (calls' = calls /\ log' = log)]_vars

\* an upload that was refused, after which the invocation ended with one
\* create, one upload and nothing else
C12_Witness ==
    /\ Done /\ UploadFailure
    /\ calls = [create |-> 1, upload |-> 1, poll |-> 0, download |-> 0]

\* a 200 whose file is a data URL, or an error status with a JSON error
WellFormed(r) ==
    \/ /\ r.code = 200 /\ r.error = ""
       /\ Len(r.file) >= 2 /\ SubSeq(r.file, 1, 2) = <<"data:audio/mp3;base64", ",">>
    \/ /\ r.code \in {400, 405, 500} /\ r.error # "" /\ r.file = <<>>

\* C13: when every remote call settles, every invocation ends; it ends having
\* sent a 200 with a data-URL file or a JSON error, nothing is sent before it
\* ends, and a response once sent is never followed by another.
C13_ExactlyOneResponse ==
    /\ <>Done
    /\ [](Done <=> res # NoResponse)
    /\ [](Done => (WellFormed(res) /\ inflight = {}))
    /\ [][res # NoResponse => res' = res]_vars

\* a download that threw, answered with a JSON error
C13_Witness == Done /\ compressedRes = "throw" /\ res.code = 500 /\ res.error # ""

\* the place of a step in the order create, upload, poll, download
StepRank(call) ==
    IF call = "create" THEN 1
    ELSE IF call = "upload" THEN 2
    ELSE IF call = "poll" THEN 3
    ELSE 4

\* C14: the remote calls are made in the order create, upload, polls,
\* download, never two at a time; the upload request is made only after a
\* create response with an upload URL, the first poll only after the upload
\* was accepted, the download only after a poll reported completed with an
\* export URL.
C14_Sequential ==
    /\ Cardinality(inflight) <= 1
    /\ \A i \in 1..(Len(log) - 1) :
          /\ StepRank(log[i].call) <= StepRank(log[i + 1].call)
          /\ StepRank(log[i].call) = StepRank(log[i + 1].call) => log[i].call = "poll"
    /\ (Len(log) > 0 /\ inflight # {}) => inflight = {log[Len(log)].call}
    /\ calls.upload > 0 => (jobRes = "parsed" /\ job.form /\ job.url)
    /\ calls.poll > 0 => uploadRes = "ok"
    /\ calls.download > 0 => (CompletedWithUrl /\ exportUrl = "url")

\* a download in flight after a create, an upload and three polls
C14_Witness ==
    /\ inflight = {"download"} /\ calls.poll = 3 /\ Len(log) = 6
    /\ log[1].call = "create" /\ log[2].call = "upload" /\ log[6].call = "download"

\* C15: the payload is decoded before the job is submitted: for a payload
\* that cannot be decoded (not a string, or a string without a comma, of
\* which Buffer.from gets undefined) no job-creation request and no other
\* remote call is made.
C15_DecodedBeforeCreate ==
    (Malformed(req.file) /\ DecodePayload(req.file).threw) => NoCalls

\* the form parts of the parameters in l, in the order of l
RECURSIVE PartsOf(_)
PartsOf(l) == IF l = <<>> THEN <<>> ELSE <<ParamPart(Head(l))>> \o PartsOf(Tail(l))

\* the parts of a form whose names are not array indices
RECURSIVE NamedParts(_)
NamedParts(l) ==
    IF l = <<>> THEN <<>>
    ELSE IF IsArrayIndex(Head(l).name) THEN NamedParts(Tail(l))
    ELSE <<Head(l)>> \o NamedParts(Tail(l))

\* C16: the form of an upload request holds the server-supplied parameters,
\* each with its value and in the order the server supplied them, followed
\* by a single part named file that holds the decoded payload.
C16_ParamsInOrderThenFile ==
    calls.upload > 0 =>
        formData = PartsOf(job.fields) \o <<FilePart(buffer, inputFormat)>>

\* What the code does keep: the form has one part per supplied parameter,
\* with its value, and after them a single file part; parameters whose names
\* are not array indices keep their relative order.
C16_SamePartsFileLast ==
    calls.upload > 0 =>
        /\ Len(formData) = Len(job.fields) + 1
        /\ formData[Len(formData)] = FilePart(buffer, inputFormat)
        /\ \A i \in 1..Len(job.fields) :
              \E j \in 1..Len(job.fields) : formData[j] = ParamPart(job.fields[i])
        /\ NamedParts(SubSeq(formData, 1, Len(job.fields)))
             = PartsOf(NamedFields(job.fields))

\* the part of a data URL after its first comma
Base64Part(url) == SubSeq(url, IndexFrom(url, ",", 1) + 1, Len(url))

\* C17: against a remote that serves back the uploaded bytes unchanged, the
\* invocation answers 200 with a data URL whose base64 part is the base64
\* part of the input data URL, for every valid base64 payload.
C17_RoundTrip ==
    Done =>
        /\ res.code = 200
        /\ compressedBuffer = buffer
        /\ Base64Part(res.file) = Base64Part(req.file.chars)

\* a payload of one full group and a padded one came back as it was sent
C17_Witness ==
    /\ Done /\ res.code = 200
    /\ Len(buffer) = 4
    /\ Base64Part(res.file) = Base64Part(req.file.chars)
    /\ Len(Base64Part(res.file)) = 8 /\ res.file[Len(res.file)] = "="

\* C19: the remote body that an error response carries as `details` is cut
\* to a bounded length: what is sent is shorter than the longest body the
\* remote can answer with.
C19_DetailsTruncated ==
    (Done /\ res.details \in RemoteDetails) => detailsLen < MaxBodyLen

\* a poll has been parsed that reported completed or failed
PolledTerminal == pollRes = "parsed" /\ pollJob.status \in {"completed", "failed"}

\* C20: the only requests addressed to the job are the status GETs of the
\* polls; no poll is issued once a poll has reported completed or failed or
\* thirty polls have been made; nothing is requested after the response has
\* been sent, and no request is then still in flight.
C20_ReadsThenDiscards ==
    /\ [](\A i \in 1..Len(log) :
             log[i].target = "job" <=> (log[i].call = "poll" /\ log[i].method = "GET"))
    /\ [](res # NoResponse => inflight = {})
    /\ [][(PolledTerminal \/ calls.poll >= MaxPolls) => calls'.poll = calls.poll]_vars
    /\ [][res # NoResponse => (log' = log /\ calls' = calls)]_vars

\* the second poll reported failed and was the last request made
C20_Witness ==
    /\ Done /\ PolledTerminal /\ pollJob.status = "failed"
    /\ calls.poll = 2 /\ Len(log) = 4
    /\ log[4] = Request("poll", "GET", "job")

\* The answer of a lone invocation with request v.req whose own calls had the
\* outcomes recorded in v and whose job is v.created
OwnAnswer(v) ==
    IF Falsy(v.req.file) THEN NoFileProvided
    ELSE IF v.uploadOut # "ok" THEN UploadFailed("text")
    ELSE IF v.pollOut.kind = "throw"
    THEN (IF variant = "basic" THEN OuterCatch(NetworkError)
          ELSE CompressionFailed(NetworkError))
    ELSE IF v.pollOut.job.status = "failed" THEN CompressionFailed("pollJob")
    ELSE IF v.pollOut.job.tasks # "export_url" THEN NoExportUrl
    ELSE IF v.downloadOut = "ok" THEN Success(ExportBytes(v.created))
    ELSE IF variant = "basic" THEN OuterCatch(NetworkError)
    ELSE DownloadFailed(NetworkError)

\* C18: under every interleaving of the invocations, each creates a job of
\* its own, polls only the job its own create call returned, downloads only
\* the export its own poll returned, and answers what it would answer alone
\* given its request and the outcomes of its own calls.
C18_Independent ==
    \A i \in DOMAIN invs :
        LET v == invs[i]
        IN  /\ v.created # 0 => \A j \in DOMAIN invs : j # i => invs[j].created # v.created
            /\ v.polled \subseteq ({v.created} \ {0})
            /\ v.fetched \subseteq v.polled
            /\ v.exportOf # 0 => v.exportOf = v.created
            /\ v.pc = "done" => v.res = OwnAnswer(v)

\* the invocation whose job was created second answered 200 while the other,
\* whose job was created first, was still polling
C18_Witness ==
    /\ DOMAIN invs = Invocations
    /\ invs[1].created = 2 /\ invs[1].pc = "done" /\ invs[1].res.code = 200
    /\ invs[2].created = 1 /\ invs[2].pc = "poll_wait" /\ invs[2].pollCount = MaxPending

\* C22: a 200 is sent only if a poll of the invocation reported completed
\* with an export URL and the download of that URL came back with a
\* successful HTTP status; its file is then the data URL of the bytes that
\* were downloaded.
C22_SuccessOnlyAfterGoodDownload ==
    res.code = 200 =>
        /\ CompletedWithUrl /\ calls.download = 1
        /\ compressedRes = "ok"
        /\ res.file = DataUrl(compressedBuffer)

\* What the code does keep: a 200 follows a completed poll with an export
\* URL and a download whose body was read, and carries that body.
C22_SuccessAfterDownload ==
    res.code = 200 =>
        /\ CompletedWithUrl /\ calls.download = 1
        /\ Downloaded
        /\ res.file = DataUrl(compressedBuffer)

\* C23: a poll whose request throws ends the invocation at once with a 500:
\* the poll is not repeated and no later poll and no download is issued,
\* whatever is left of the budget of 30 polls.
C23_PollThrowIsTerminal ==
    /\ [](pollRes = "throw" =>
            (Done /\ res.code = 500 /\ calls.download = 0 /\ inflight = {}))
    /\ [][pollRes = "throw" => (calls' = calls /\ log' = log)]_vars

\* the second poll threw, with 28 attempts left, and the invocation ended
C23_Witness ==
    /\ Done /\ pollRes = "throw" /\ calls.poll = 2 /\ pollCount = 1
    /\ res.code = 500 /\ calls.download = 0

\* C25: the checks run in the order method, body parse, file, credential: a
\* request is answered by the first check it fails (a POST without file
\* and without the credential gets the 400 of the file check), and a
\* request that fails any of them is answered without an outbound request.
C25_ValidationOrder ==
    Done =>
        /\ req.method # "POST" => res = MethodNotAllowed
        /\ (req.method = "POST" /\ req.body = "stream_garbage")
              => res = OuterCatch(JsonError)
        /\ (req.method = "POST" /\ req.body # "stream_garbage" /\ Falsy(req.file))
              => (res = NoFileProvided /\ res.code = 400)
        /\ (req.method = "POST" /\ req.body # "stream_garbage" /\ ~Falsy(req.file)
              /\ ~env.apiKey) => res = MissingApiKey
        /\ (req.method # "POST" \/ req.body = "stream_garbage" \/ Falsy(req.file)
              \/ ~env.apiKey) => (NoCalls /\ log = <<>>)

\* a POST without file and without the credential, answered 400
C25_Witness ==
    /\ Done /\ req.method = "POST" /\ req.body = "stream_json"
    /\ Falsy(req.file) /\ ~env.apiKey
    /\ res = NoFileProvided /\ NoCalls

\* C24: given the same request and the same remote responses, JSON bodies
\* being labelled application/json, the two variants make the same outbound
\* calls in the same order, are over at the same point, and answer with the
\* same HTTP status code.
C24_VariantsAgree ==
    DOMAIN invs = Variants =>
        LET a == invs["basic"]
            h == invs["hardened"]
        IN  /\ a.log = h.log
            /\ a.pc = h.pc
            /\ a.res.code = h.res.code

\* both variants are over after a create, an upload and two polls, with the
\* same status code and error bodies that differ
C24_Witness ==
    /\ DOMAIN invs = Variants
    /\ invs["basic"].pc = "done" /\ invs["hardened"].pc = "done"
    /\ invs["basic"].log = <<"create", "upload", "poll", "poll">>
    /\ invs["basic"].res.code = 500 /\ invs["hardened"].res.code = 500
    /\ invs["basic"].res # invs["hardened"].res

\* the position of a process handler is one of those of its code
ProcessTypeOK ==
    at \in {"none", "start", "parse", "validate", "info", "info_wait", "connect",
            "connect_wait", "predict", "predict_wait", "probe", "probe_wait", "json",
            "json_wait", "primary", "primary_wait", "alternative", "alternative_wait",
            "map", "done"}

\* C29: a process handler makes no outbound request unless the method is
\* POST, file is present, HF_TOKEN is set and the payload decodes; a request
\* that fails several of these is rejected for the first in that order: 405
\* for the method, 400 for a missing file, 500 for a missing HF_TOKEN, 400
\* 'Invalid file encoding' for a payload that does not decode, so that a
\* malformed payload without HF_TOKEN is answered 500.
MalformedPayload == ~Falsy(request.file) /\ DecodeFails(request.file)

C29_RejectedInOrder ==
    /\ outbound # <<>> =>
          /\ request.method = "POST"
          /\ ~Falsy(request.file)
          /\ settings.hfToken
          /\ ~DecodeFails(request.file)
    /\ at = "done" /\ handler # "none" =>
          /\ request.method # "POST" => answer.code = 405
          /\ request.method = "POST" /\ request.body # "stream_garbage" =>
                /\ Falsy(request.file) => answer = ErrorAnswer(400, "No file provided")
                /\ ~Falsy(request.file) /\ ~settings.hfToken =>
                      answer.code = 500 /\ answer.error = TokenMessage(handler)
                /\ MalformedPayload /\ settings.hfToken =>
                      answer = ErrorAnswer(400, InvalidEncoding)

\* a malformed payload without HF_TOKEN has been answered
C29_Witness ==
    /\ at = "done"
    /\ request.method = "POST"
    /\ MalformedPayload
    /\ ~settings.hfToken
    /\ answer.code = 500
    /\ outbound = <<>>

\* C21: in every serverless handler, compress and process, a request whose
\* method is not POST is answered 405 with a JSON error; its body is never
\* read and no outbound request is ever made.
C21_WrongMethod ==
    /\ pc # "none" /\ req.method # "POST" =>
          /\ ~bodyRead
          /\ log = <<>> /\ inflight = {} /\ TotalCalls = 0
          /\ pc \in {"start", "done"}
          /\ pc = "done" => res = MethodNotAllowed
    /\ handler \in ServerlessHandlers /\ request.method # "POST" =>
          /\ ~streamRead
          /\ outbound = <<>> /\ awaited = {}
          /\ at \in {"start", "done"}
          /\ at = "done" => answer = ErrorAnswer(405, "Method not allowed")

\* a process handler has answered a request that is not a POST
C21_Witness ==
    /\ handler \in ServerlessHandlers
    /\ request.method # "POST"
    /\ request.body # "parsed"
    /\ at = "done"
    /\ answer.code = 405

\* C26: the probing handler contacts the three endpoints in their listed
\* order, each with a multipart upload; no endpoint is contacted after one
\* that answered with a success status; the JSON request is made only when
\* no endpoint succeeded, and after them; so at most 4 inference requests
\* are made.
Succeeded(r) == r.came.kind = "response" /\ r.came.ok

C26_ProbesInOrder ==
    handler = "probing" =>
        /\ Len(outbound) <= Len(PossibleEndpoints) + 1
        /\ \A i \in 1..Len(outbound) :
              /\ outbound[i].call \in {"probe", "json"}
              /\ outbound[i].call = "probe" =>
                    /\ i <= Len(PossibleEndpoints)
                    /\ outbound[i].target = PossibleEndpoints[i]
                    /\ outbound[i].format = "multipart"
                    /\ outbound[i].method = "POST"
                    /\ \A j \in 1..(i - 1) : outbound[j].call = "probe"
              /\ outbound[i].call = "json" =>
                    /\ i = Len(outbound)
                    /\ outbound[i].format = "json"
                    /\ \A j \in 1..(i - 1) : ~Succeeded(outbound[j])
              /\ outbound[i].call = "probe" /\ Succeeded(outbound[i]) => i = Len(outbound)

\* the second endpoint succeeded after the first did not, and the handler
\* has answered
C26_Witness ==
    /\ handler = "probing"
    /\ at = "done"
    /\ Len(outbound) = 2
    /\ ~Succeeded(outbound[1])
    /\ Succeeded(outbound[2])
    /\ outbound[2].call = "probe"

\* C27: in the two handlers of src/api/process.js, when the inference call
\* chain has failed (the client's connect or predict threw; every probe and
\* the JSON request threw or answered a non-success status) the answer is
\* HTTP 200 with the placeholder texts, audio null and the failure message
\* in error; an answer with a 5xx status after an inference request is only
\* given when the last request succeeded and its body was read.
LastOutbound == outbound[Len(outbound)]

ChainFailed ==
    /\ outbound # <<>>
    /\ awaited = {}
    /\ \/ /\ handler = "client"
          /\ LastOutbound.call \in {"connect", "predict"}
          /\ LastOutbound.came.kind = "throw"
       \/ /\ handler = "probing"
          /\ LastOutbound.call = "json"
          /\ \A i \in 1..Len(outbound) : ~Succeeded(outbound[i])

C27_FailureIsFallback ==
    handler \in {"client", "probing"} =>
        /\ ChainFailed =>
              /\ at = "done"
              /\ answer.code = 200
              /\ answer.original = Unavailable
              /\ answer.cleaned = Unavailable
              /\ answer.audio = "null"
              /\ "error" \in answer.fields
              /\ answer.error = IF handler = "client" THEN ClientFailed ELSE AllFailed
        /\ answer.code >= 500 /\ outbound # <<>> =>
              /\ Succeeded(LastOutbound) \/ LastOutbound.call = "predict"
              /\ LastOutbound.came.body = "json"

\* the three endpoints and the JSON request have failed, and the handler has
\* answered
C27_Witness ==
    /\ handler = "probing"
    /\ ChainFailed
    /\ Len(outbound) = 4
    /\ answer.code = 200

\* C28: in the handlers with a primary and an alternative endpoint, the
\* alternative (/run/predict) is contacted at most once, and only after the
\* primary call has failed: it threw, its content type was not JSON, its
\* status was not a success, or its body could not be read; when the
\* alternative fails too the answer is HTTP 200 with the fallback body whose
\* error is the message of the primary failure.
PrimaryFailed(c) ==
    c.kind = "throw" \/ (c.kind = "response" /\ (c.ct # "json" \/ ~c.ok \/ c.body # "json"))

AlternativeFailure(c) ==
    c.kind = "throw" \/ (c.kind = "response" /\ (~c.ok \/ c.body # "json"))

PrimaryMessage(c) ==
    PrimaryResult([kind |-> c.kind, ok |-> c.ok, ct |-> c.ct, body |-> c.body,
                   R |-> NoApiResponse]).msg

C28_AlternativeAfterPrimary ==
    handler \in {"alternative", "express"} =>
        /\ Len(outbound) <= 2
        /\ \A i \in 1..Len(outbound) :
              /\ outbound[i].call = "alternative" <=> i = 2
              /\ outbound[i].call = "primary" <=> i = 1
        /\ Len(outbound) = 2 =>
              /\ outbound[2].target = "/run/predict"
              /\ PrimaryFailed(outbound[1].came)
              /\ AlternativeFailure(outbound[2].came) =>
                    /\ at = "done"
                    /\ answer = Fallback(PrimaryMessage(outbound[1].came))
                    /\ answer.code = 200
                    /\ answer.error # AlternativeFailed

\* the primary answered with a page that is not JSON, the alternative with a
\* status that is not a success, and the handler has answered
C28_Witness ==
    /\ handler \in {"alternative", "express"}
    /\ Len(outbound) = 2
    /\ outbound[1].came.kind = "response" /\ outbound[1].came.ct = "other"
    /\ outbound[2].came.kind = "response" /\ ~outbound[2].came.ok
    /\ at = "done"
    /\ answer.error = HtmlError

\* C30: after a successful inference call with response R the answer is made
\* from R by a fixed priority: R.data when it is an array, else R.original,
\* R.cleaned and R.audio when both texts are truthy, else R itself when it
\* is an array of two members or more, else HTTP 500 'Unknown response
\* format'; the HTTP 200 body has exactly the fields original, cleaned and
\* audio, a falsy original or cleaned being replaced by its placeholder and a
\* falsy audio by null.
Mapped == handler \in {"probing", "alternative", "express"} /\ at = "done"
              /\ apiResponse # NoApiResponse

ClaimedTuple(R) ==
    IF R.data.is = "array"
    THEN <<Item(R.data.items, 1), Item(R.data.items, 2), Item(R.data.items, 3)>>
    ELSE IF ~Empty(R.original) /\ ~Empty(R.cleaned)
    THEN <<R.original, R.cleaned, R.audio>>
    ELSE IF R.kind = "array" /\ Len(R.items) >= 2
    THEN <<Item(R.items, 1), Item(R.items, 2), Item(R.items, 3)>>
    ELSE <<>>

AnswersAsClaimed ==
    LET t == ClaimedTuple(apiResponse)
    IN  IF t = <<>>
        THEN answer.code = 500 /\ answer.error = UnknownFormat
        ELSE /\ answer.code = 200
             /\ answer.fields = {"original", "cleaned", "audio"}
             /\ answer.original = IF Empty(t[1]) THEN NoOriginal ELSE t[1]
             /\ answer.cleaned = IF Empty(t[2]) THEN NoCleaned ELSE t[2]
             /\ answer.audio = IF Empty(t[3]) THEN "null" ELSE t[3]

C30_MappedByPriority == Mapped => AnswersAsClaimed

\* C30, for every response but the JSON value null: the priority and the
\* body are as the claim says
C30_MappedUnlessNull == Mapped /\ apiResponse.kind # "null" => AnswersAsClaimed

\* C30, for null: the answer is 500 with the message of the TypeError
C30_NullIsTypeError ==
    Mapped /\ apiResponse.kind = "null" => answer = ErrorAnswer(500, NullError)

====
